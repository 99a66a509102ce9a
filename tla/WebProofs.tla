------------------------------- MODULE WebProofs --------------------------------
(***************************************************************************)
(* Proofs about the web demonstrator for any stations, bodies, menus, MINs *)
(* and bounds, and any number of failures.                                 *)
(***************************************************************************)
EXTENDS WebProperties, PlaceLemmas, FiniteSetTheorems, SequenceTheorems, TLAPS

-----------------------------------------------------------------------------
(* Numbers, messages and rows. *)

LEMMA Numbers ==
    /\ MaxMin \in Nat /\ MIN \subseteq 0..MaxMin /\ None \in 0..MaxMin
    /\ 1 \in MIN
    /\ \A n \in MIN : NextMin(n) \in MIN
BY BoundsAssumption DEF MIN, None, NextMin

LEMMA NoElements == << >> \in Seq({"DM"} \X Nat)
OBVIOUS

LEMMA MessageType ==
    ASSUME NEW out \in BOOLEAN, NEW from \in Destination, NEW min \in 0..MaxMin,
           NEW mrn \in 0..MaxMin, NEW state \in Status, NEW intents \in SUBSET Intent,
           NEW body \in Seq({"DM"} \X Nat)
    PROVE  Message(out, from, min, mrn, state, intents, body) \in DcduMessage
BY DEF Message, DcduMessage

LEMMA IntentsType ==
    ASSUME NEW body
    PROVE  ResponseIntents(body) \in SUBSET Intent
<1>1. \A attr : ForAttribute(attr) \in SUBSET Intent
  BY DEF ForAttribute, Intent
<1> QED BY <1>1 DEF ResponseIntents, ShortResponses

LEMMA RowAt ==
    ASSUME rows \in Seq(DcduMessage), NEW i \in DOMAIN rows
    PROVE  /\ rows[i] \in DcduMessage
           /\ rows[i].out \in BOOLEAN /\ rows[i].from \in Destination
           /\ rows[i].min \in 0..MaxMin /\ rows[i].mrn \in 0..MaxMin
           /\ rows[i].status \in Status /\ rows[i].intents \in SUBSET Intent
           /\ rows[i].elements \in Seq({"DM"} \X Nat) /\ rows[i].acknowledged \in BOOLEAN
<1>1. rows[i] \in DcduMessage
  OBVIOUS
<1> QED BY <1>1 DEF DcduMessage

LEMMA SetStatusType ==
    ASSUME rows \in Seq(DcduMessage), NEW i, NEW state \in Status
    PROVE  SetStatus(i, state) \in Seq(DcduMessage)
<1>1. CASE i \in DOMAIN rows
  <2>1. [rows[i] EXCEPT !.status = state] \in DcduMessage
    <3>1. rows[i] \in DcduMessage
      BY <1>1
    <3> QED BY <3>1 DEF DcduMessage
  <2> QED BY <1>1, <2>1 DEF SetStatus
<1>2. CASE i \notin DOMAIN rows
  <2>1. SetStatus(i, state) = rows
    BY <1>2 DEF SetStatus
  <2> QED BY <2>1
<1> QED BY <1>1, <1>2

LEMMA MappedRows ==
    ASSUME rows \in Seq(DcduMessage), NEW new,
           new = [i \in DOMAIN rows |-> new[i]],
           \A i \in DOMAIN rows : new[i] \in DcduMessage
    PROVE  new \in Seq(DcduMessage)
<1>1. DOMAIN rows = 1..Len(rows) /\ Len(rows) \in Nat
  OBVIOUS
<1> QED BY <1>1

LEMMA CloseUplinkType ==
    ASSUME rows \in Seq(DcduMessage), NEW min
    PROVE  CloseUplink(min) \in Seq(DcduMessage)
<1>1. \A i \in DOMAIN rows : rows[i] \in DcduMessage
  OBVIOUS
<1>2. \A r \in DcduMessage : [r EXCEPT !.status = "responded"] \in DcduMessage
  BY DEF DcduMessage, Status
<1>3. \A i \in DOMAIN rows : CloseUplink(min)[i] \in DcduMessage
  BY <1>1, <1>2 DEF CloseUplink
<1>4. CloseUplink(min) = [i \in DOMAIN rows |-> CloseUplink(min)[i]]
  BY DEF CloseUplink
<1> HIDE DEF CloseUplink
<1> QED BY <1>3, <1>4, MappedRows

LEMMA AcknowledgeType ==
    ASSUME rows \in Seq(DcduMessage), NEW m, Acknowledge(m)
    PROVE  rows' \in Seq(DcduMessage)
<1>1. \A i \in DOMAIN rows : rows[i] \in DcduMessage
  OBVIOUS
<1>2. \A r \in DcduMessage : [r EXCEPT !.acknowledged = TRUE] \in DcduMessage
  BY DEF DcduMessage
<1>3. \A i \in DOMAIN rows : rows'[i] \in DcduMessage
  BY <1>1, <1>2 DEF Acknowledge
<1>4. rows' = [i \in DOMAIN rows |-> rows'[i]]
  BY DEF Acknowledge
<1> QED BY <1>3, <1>4, MappedRows

LEMMA RootType ==
    ASSUME rows \in Seq(DcduMessage), NEW m
    PROVE  RootOf(m) \in 0..MaxMin
<1> DEFINE answered == {i \in DOMAIN rows : rows[i].out /\ m.mrn # None /\ rows[i].min = m.mrn}
<1>1. CASE answered = {}
  BY <1>1, Numbers DEF RootOf
<1>2. CASE answered # {}
  <2>1. answered \subseteq DOMAIN rows /\ answered \subseteq Nat
    OBVIOUS
  <2> HIDE DEF answered
  <2>2. \E i \in answered : \A j \in answered : i <= j
    BY <1>2, <2>1, FirstExists
  <2>3. Min(answered) \in DOMAIN rows
    BY <2>1, <2>2 DEF Min
  <2>4. rows[Min(answered)].mrn \in 0..MaxMin
    BY <2>3, RowAt
  <2> QED BY <1>2, <2>4 DEF RootOf, answered
<1> QED BY <1>1, <1>2

LEMMA DisplayType ==
    ASSUME rows \in Seq(DcduMessage), NEW m \in Envelopes, Display(m)
    PROVE  rows' \in Seq(DcduMessage)
<1>1. m.from \in Destination /\ m.min \in 0..MaxMin /\ m.mrn \in 0..MaxMin
  BY DEF Envelopes
<1>2. RootOf(m) \in 0..MaxMin
  BY RootType
<1>3. Message(FALSE, m.from, m.min, m.mrn, "open", ResponseIntents(m.elements), << >>)
        \in DcduMessage
  BY <1>1, IntentsType, NoElements, MessageType DEF Status
<1>4. Message(FALSE, m.from, m.min, RootOf(m), "responded", {}, << >>) \in DcduMessage
  BY <1>1, <1>2, NoElements, MessageType DEF Status
<1>5. CloseUplink(RootOf(m)) \in Seq(DcduMessage)
  BY CloseUplinkType
<1>6. \A r \in DcduMessage : Append(rows, r) \in Seq(DcduMessage)
                             /\ Append(CloseUplink(RootOf(m)), r) \in Seq(DcduMessage)
  BY <1>5
<1>7. \/ rows' = Append(rows, Message(FALSE, m.from, m.min, m.mrn, "open",
                                      ResponseIntents(m.elements), << >>))
      \/ rows' = Append(CloseUplink(RootOf(m)),
                        Message(FALSE, m.from, m.min, RootOf(m), "responded", {}, << >>))
  BY ZenonT(20) DEF Display
<1> QED BY <1>3, <1>4, <1>6, <1>7, Zenon

-----------------------------------------------------------------------------
(* What is awaited and what was published. *)

Kinds == {"online", "offline", "logon", "draft"} \cup Intent

LEMMA FlightType ==
    ASSUME closed \in BOOLEAN, NEW kind \in Kinds, NEW row \in Nat, NEW min \in 0..MaxMin
    PROVE  Flight(kind, row, min) \in Flights
<1>1. (closed \/ leaving = "drain") \in BOOLEAN
  OBVIOUS
<1> QED BY <1>1 DEF Flight, Flights, Kinds

LEMMA RecordType ==
    ASSUME mins \in [Destination -> MIN], NEW to \in Destination, NEW mrn \in 0..MaxMin,
           NEW row \in Nat, NEW what \in {"ack", "draft"} \cup Intent
    PROVE  Record(to, mrn, row, what) \in Published
BY DEF Record, Published

LEMMA PublishType ==
    ASSUME pending \in Seq(Flights), mins \in [Destination -> MIN], sent \in Seq(Published),
           NEW flight \in Flights, NEW record \in Published, PublishAndAwait(flight, record)
    PROVE  /\ pending' \in Seq(Flights)
           /\ mins' \in [Destination -> MIN]
           /\ sent' \in Seq(Published)
<1>1. record.to \in Destination
  BY DEF Published
<1>2. NextMin(mins[record.to]) \in MIN
  BY <1>1, Numbers
<1>3. mins' \in [Destination -> MIN]
  BY <1>2 DEF PublishAndAwait
<1>4. pending' \in Seq(Flights)
  BY DEF PublishAndAwait
<1>5. sent' = sent \/ sent' = Append(sent, record)
  BY DEF PublishAndAwait
<1> QED BY <1>3, <1>4, <1>5

(* Listeners that gave up, or wait for their turn, are among those that    *)
(* listen.                                                                 *)
Deliveries == {Nothing} \cup [msg : Envelopes, to : SUBSET subs]

LEMMA UnlistenType ==
    ASSUME ClientTypeOK, NEW c, Unlisten(c)
    PROVE  /\ subs' \subseteq 0..MaxConnects
           /\ delivery' \in Deliveries'
<1>1. subs' = subs \ {c}
  BY DEF Unlisten
<1>2. subs' \subseteq 0..MaxConnects
  BY <1>1 DEF ClientTypeOK
<1>3. CASE delivery.to \ {c} = {}
  <2>1. delivery' = Nothing
    BY <1>3 DEF Unlisten
  <2> QED BY <1>2, <2>1 DEF Deliveries
<1>4. CASE delivery.to \ {c} # {}
  <2>1. delivery' = [delivery EXCEPT !.to = delivery.to \ {c}]
    BY <1>4 DEF Unlisten
  <2>2. delivery \in [msg : Envelopes, to : SUBSET subs]
    BY <1>4 DEF ClientTypeOK, Nothing
  <2>3. delivery' \in [msg : Envelopes, to : SUBSET subs']
    BY <1>1, <2>1, <2>2
  <2> QED BY <1>2, <2>3 DEF Deliveries
<1> QED BY <1>3, <1>4

LEMMA SettleType ==
    ASSUME ClientTypeOK, NEW f \in Flights, NEW ok \in BOOLEAN, Settle(f, ok)
    PROVE  /\ rows' \in Seq(DcduMessage)
           /\ status' \in {"disconnected", "connecting", "connected"}
           /\ beating' \in BOOLEAN
           /\ leaving' \in {"no", "offline", "drain"}
           /\ subs' \subseteq 0..MaxConnects
           /\ delivery' \in Deliveries'
<1> rows \in Seq(DcduMessage)
  BY DEF ClientTypeOK
<1>1. rows' \in Seq(DcduMessage)
  <2>1. \A state \in Status : SetStatus(f.row, state) \in Seq(DcduMessage)
    BY SetStatusType
  <2>2. AnswerSent(f) \in Seq(DcduMessage) /\ AnswerFailed(f) \in Seq(DcduMessage)
        /\ DraftFailed(f) \in Seq(DcduMessage)
    BY <2>1 DEF AnswerSent, AnswerFailed, DraftFailed, Status
  <2>3. DraftSent(f) \in Seq(DcduMessage)
    <3>1. f.min \in 0..MaxMin
      BY DEF Flights
    <3>2. CASE f.row \in DOMAIN rows
      <4>1. rows[f.row] \in DcduMessage
        BY <3>2
      <4>2. \A r \in DcduMessage :
               [r EXCEPT !.status = "sent", !.min = f.min] \in DcduMessage
        BY <3>1 DEF DcduMessage, Status
      <4>3. DraftSent(f) = [rows EXCEPT ![f.row] = [rows[f.row] EXCEPT !.status = "sent",
                                                                   !.min = f.min]]
        BY <3>2 DEF DraftSent
      <4>4. [rows[f.row] EXCEPT !.status = "sent", !.min = f.min] \in DcduMessage
        BY <4>1, <4>2
      <4>5. f.row \in 1..Len(rows)
        BY <3>2
      <4> QED BY <4>3, <4>4, <4>5, ExceptSeq
    <3>3. CASE f.row \notin DOMAIN rows
      <4>1. DraftSent(f) = rows
        BY <3>3 DEF DraftSent
      <4> QED BY <4>1
    <3> QED BY <3>2, <3>3
  <2>4. LogonSent \in Seq(DcduMessage)
    <3>1. Message(TRUE, None, None, None, "sent", {}, << >>) \in DcduMessage
      BY Numbers, NoElements, MessageType DEF Status, Destination
    <3> QED BY <3>1, AppendProperties, Zenon DEF LogonSent
  <2>5. rows' \in {AnswerSent(f), AnswerFailed(f), DraftSent(f), DraftFailed(f), LogonSent, rows}
    BY DEF Settle
  <2> QED BY <2>2, <2>3, <2>4, <2>5 DEF ClientTypeOK
<1>2. /\ status' \in {"disconnected", "connecting", "connected"}
      /\ beating' \in BOOLEAN
  BY DEF Settle, ClientTypeOK
<1>3. CASE f.kind = "offline"
  <2>1. Leave
    BY <1>3 DEF Settle
  <2>2. leaving' \in {"no", "offline", "drain"} /\ Unlisten(client)
    BY <2>1 DEF Leave
  <2> QED BY <1>1, <1>2, <2>2, UnlistenType
<1>4. CASE f.kind # "offline"
  <2>1. UNCHANGED <<leaving, subs, delivery>>
    BY <1>4 DEF Settle
  <2> QED BY <1>1, <1>2, <2>1 DEF ClientTypeOK, Deliveries
<1> QED BY <1>3, <1>4

LEMMA ReplyType ==
    ASSUME ClientTypeOK, NEW m \in Envelopes, Reply(m)
    PROVE  mins' \in [Destination -> MIN] /\ sent' \in Seq(Published)
<1>1. m.from \in Destination /\ m.unit \in Destination /\ m.min \in 0..MaxMin
  BY DEF Envelopes
<1>2. mins \in [Destination -> MIN] /\ sent \in Seq(Published)
  BY DEF ClientTypeOK
<1> DEFINE acked == IF client # None /\ ShouldAck(m.elements, m.min)
                    THEN [mins EXCEPT ![m.from] = NextMin(@)] ELSE mins
<1>3. acked \in [Destination -> MIN]
  BY <1>1, <1>2, Numbers
<1>4. mins' = acked \/ mins' = [acked EXCEPT ![m.unit] = 1]
  BY DEF Reply
<1>5. mins' \in [Destination -> MIN]
  <2> HIDE DEF acked
  <2> QED BY <1>3, <1>4, Numbers
<1>6. Record(m.from, m.min, 0, "ack") \in Published
  BY <1>1, <1>2, RecordType
<1>7. sent' = sent \/ sent' = Append(sent, Record(m.from, m.min, 0, "ack"))
  BY DEF Reply
<1>8. sent' \in Seq(Published)
  BY <1>2, <1>6, <1>7
<1> QED BY <1>5, <1>8

LEMMA HandleType ==
    ASSUME ClientTypeOK, NEW m \in Envelopes, HandleIncoming(m)
    PROVE  /\ rows' \in Seq(DcduMessage)
           /\ session' \in Destination
           /\ mins' \in [Destination -> MIN]
           /\ sent' \in Seq(Published)
<1> /\ rows \in Seq(DcduMessage) /\ session \in Destination
    /\ mins \in [Destination -> MIN] /\ sent \in Seq(Published)
  BY DEF ClientTypeOK
<1>1. m.kind \in {"app", "logonResponse", "connectionRequest", "session"}
      /\ m.from \in Destination
  BY DEF Envelopes
<1>2. CASE m.kind = "app"
  <2>1. CASE ContainsAck(m.elements)
    <3>1. Acknowledge(m) /\ UNCHANGED <<session, mins, sent>>
      BY <1>2, <2>1 DEF HandleIncoming
    <3> QED BY <3>1, AcknowledgeType
  <2>2. CASE ~ContainsAck(m.elements)
    <3>1. Reply(m) /\ Display(m) /\ UNCHANGED session
      BY <1>2, <2>2 DEF HandleIncoming
    <3> QED BY <3>1, ReplyType, DisplayType
  <2> QED BY <2>1, <2>2
<1>3. CASE m.kind = "logonResponse"
  <2>1. /\ rows' = Append(rows, Message(FALSE, m.from, None, None, "responded", {}, << >>))
        /\ UNCHANGED <<session, mins, sent>>
    BY <1>3 DEF HandleIncoming
  <2>2. Message(FALSE, m.from, None, None, "responded", {}, << >>) \in DcduMessage
    BY <1>1, Numbers, NoElements, MessageType DEF Status
  <2>3. rows' \in Seq(DcduMessage)
    BY <2>1, <2>2, AppendProperties, Zenon
  <2> QED BY <2>1, <2>3
<1>4. CASE m.kind = "connectionRequest"
  BY <1>4 DEF HandleIncoming
<1>5. CASE m.kind = "session"
  BY <1>1, <1>5 DEF HandleIncoming
<1> QED BY <1>1, <1>2, <1>3, <1>4, <1>5

LEMMA DeliverType ==
    ASSUME ClientTypeOK, NEW m \in Envelopes, Deliver(m)
    PROVE  delivery' \in Deliveries'
<1>1. UNCHANGED subs
  BY DEF Deliver, HandleIncoming, link
<1>2. delivery' = Nothing \/ \E c \in subs : delivery' = [msg |-> m, to |-> subs \ {c}]
  BY DEF Deliver
<1> QED BY <1>1, <1>2 DEF Deliveries

LEMMA ApplicationType ==
    ASSUME ClientTypeOK, NEW s \in Station, NEW mrn \in MinsSentTo(s) \cup {None},
           NEW body \in Uplinks4Me, NEW unit \in Station
    PROVE  Application(s, mrn, body, unit) \in Envelopes
<1>1. MinsSentTo(s) \subseteq MIN
  <2>1. \A j \in DOMAIN sent : sent[j] \in Published
    BY DEF ClientTypeOK
  <2> QED BY <2>1 DEF MinsSentTo, Published
<1>2. mrn \in 0..MaxMin
  BY <1>1, Numbers
<1>3. stationMins[s] \in 0..MaxMin
  BY Numbers DEF ClientTypeOK
<1> QED BY <1>2, <1>3 DEF Application, Envelopes, Destination

LEMMA MetaType ==
    ASSUME NEW s \in Destination, NEW kind \in {"logonResponse", "connectionRequest", "session"}
    PROVE  Envelope(kind, s) \in Envelopes
BY Numbers DEF Envelope, Envelopes

-----------------------------------------------------------------------------
(* Every step of the connection keeps the types. *)

LEMMA ConnectionType ==
    ASSUME ClientTypeOK,
           Connect \/ Connected \/ ConnectFails \/ Heartbeat \/ Disconnect \/ Drained
    PROVE  ClientTypeOK'
<1> /\ None \in 0..MaxMin /\ None \in Destination
  BY Numbers DEF Destination
<1>1. CASE Connect
  BY <1>1, BoundsAssumption DEF Connect, ClientTypeOK, dialogue
<1>2. CASE Connected
  <2>1. [Flight("online", 0, None) EXCEPT !.lost = FALSE] \in Flights
    BY DEF Flight, Flights
  <2>2. pending' \in Seq(Flights)
    BY <2>1, <1>2 DEF Connected, ClientTypeOK
  <2>3. delivery' \in Deliveries'
    BY <1>2 DEF Connected, ClientTypeOK, Deliveries
  <2> QED BY <1>2, <2>2, <2>3 DEF Connected, ClientTypeOK, environment, Deliveries
<1>3. CASE ConnectFails
  BY <1>3, BoundsAssumption DEF ConnectFails, ClientTypeOK, dialogue
<1>4. CASE Heartbeat
  BY <1>4 DEF Heartbeat, ClientTypeOK, dialogue, environment
<1>5. CASE Disconnect
  <2>1. Flight("offline", 0, None) \in Flights
    BY FlightType DEF ClientTypeOK, Kinds
  <2>2. pending' \in Seq(Flights)
    BY <2>1, <1>5 DEF Disconnect, ClientTypeOK
  <2> QED BY <1>5, <2>2 DEF Disconnect, ClientTypeOK, environment, BeatingAfter
<1>6. CASE Drained
  BY <1>6, BoundsAssumption, EmptySeq DEF Drained, ClientTypeOK, environment, None
<1> QED BY <1>1, <1>2, <1>3, <1>4, <1>5, <1>6

LEMMA PromiseType ==
    ASSUME ClientTypeOK,
           Flushed \/ FlushFailed \/ (\E forGood \in BOOLEAN : Break(forGood))
    PROVE  ClientTypeOK'
<1> pending \in Seq(Flights)
  BY DEF ClientTypeOK
<1>1. ASSUME NEW i \in DOMAIN pending, NEW ok \in BOOLEAN, Settle(pending[i], ok),
             pending' = RemoveAt(pending, i)
      PROVE  ClientTypeOK'
  <2>1. pending[i] \in Flights
    OBVIOUS
  <2>2. pending' \in Seq(Flights)
    BY <1>1, RemoveAtSeq
  <2>3. /\ rows' \in Seq(DcduMessage)
        /\ status' \in {"disconnected", "connecting", "connected"}
        /\ beating' \in BOOLEAN
        /\ leaving' \in {"no", "offline", "drain"}
        /\ subs' \subseteq 0..MaxConnects
        /\ delivery' \in Deliveries'
    BY <1>1, <2>1, SettleType
  <2>4. UNCHANGED <<client, closed, presence, session, mins, sent, written, environment>>
    BY <1>1 DEF Settle
  <2> QED BY <2>2, <2>3, <2>4 DEF ClientTypeOK, Deliveries, environment
<1>2. CASE Flushed
  BY <1>1, <1>2 DEF Flushed
<1>3. CASE FlushFailed
  BY <1>1, <1>3 DEF FlushFailed
<1>4. ASSUME NEW forGood \in BOOLEAN, Break(forGood)
      PROVE  ClientTypeOK'
  <2>1. /\ subs' \subseteq 0..MaxConnects
        /\ delivery' \in Deliveries'
    <3>1. CASE forGood
      BY <1>4, <3>1, UnlistenType DEF Break
    <3>2. CASE ~forGood
      BY <1>4, <3>2 DEF Break, ClientTypeOK, Deliveries
    <3> QED BY <3>1, <3>2
  <2>2. pending' \in Seq(Flights)
    <3>1. \A f \in Flights : [f EXCEPT !.lost = TRUE] \in Flights
      BY DEF Flights
    <3>2. pending' = [i \in DOMAIN pending |-> [pending[i] EXCEPT !.lost = TRUE]]
      BY <1>4 DEF Break
    <3> QED BY <3>1, <3>2
  <2>3. faults' \in 0..MaxFaults
    BY <1>4, BoundsAssumption DEF Break, ClientTypeOK
  <2> QED BY <1>4, <2>1, <2>2, <2>3 DEF Break, ClientTypeOK, Deliveries
<1> QED BY <1>2, <1>3, <1>4

LEMMA ArrivalType ==
    ASSUME ClientTypeOK,
           ArriveApplication \/ ArriveMeta \/ ArriveSession
             \/ (\E c \in delivery.to : DeliverAgain(c))
    PROVE  ClientTypeOK'
<1>1. ASSUME NEW m \in Envelopes, HandleIncoming(m), delivery' \in Deliveries',
             stationMins' \in [Station -> MIN], arrivals' \in 0..MaxArrivals
      PROVE  ClientTypeOK'
  <2>1. /\ rows' \in Seq(DcduMessage)
        /\ session' \in Destination
        /\ mins' \in [Destination -> MIN]
        /\ sent' \in Seq(Published)
    BY <1>1, HandleType
  <2>2. UNCHANGED <<link, pending, written, connects, faults>>
    BY <1>1 DEF HandleIncoming
  <2> QED BY <1>1, <2>1, <2>2 DEF ClientTypeOK, Deliveries, link
<1>2. Arrives => arrivals' \in 0..MaxArrivals
  BY BoundsAssumption DEF Arrives, ClientTypeOK
<1>3. CASE ArriveApplication
  <2>1. PICK s, unit \in Station, body \in Uplinks4Me :
            \E mrn \in MinsSentTo(s) \cup {None} :
                /\ Arrives /\ Deliver(Application(s, mrn, body, unit))
                /\ stationMins' = [stationMins EXCEPT ![s] = NextMin(@)]
    BY <1>3 DEF ArriveApplication
  <2>2. PICK mrn \in MinsSentTo(s) \cup {None} :
            /\ Arrives /\ Deliver(Application(s, mrn, body, unit))
            /\ stationMins' = [stationMins EXCEPT ![s] = NextMin(@)]
    BY <2>1
  <2>3. Application(s, mrn, body, unit) \in Envelopes
    BY ApplicationType
  <2>4. stationMins' \in [Station -> MIN]
    BY <2>2, Numbers DEF ClientTypeOK
  <2>5. HandleIncoming(Application(s, mrn, body, unit))
    BY <2>2 DEF Deliver
  <2> QED BY <1>1, <1>2, <2>2, <2>3, <2>4, <2>5, DeliverType
<1>4. CASE ArriveMeta
  <2>1. PICK s \in Station, kind \in {"logonResponse", "connectionRequest"} :
            /\ Arrives /\ Deliver(Envelope(kind, s))
            /\ stationMins' = [stationMins EXCEPT ![s] = 1]
    BY <1>4 DEF ArriveMeta
  <2>2. Envelope(kind, s) \in Envelopes
    BY MetaType DEF Destination
  <2>3. stationMins' \in [Station -> MIN]
    BY <2>1, Numbers DEF ClientTypeOK
  <2>4. HandleIncoming(Envelope(kind, s))
    BY <2>1 DEF Deliver
  <2> QED BY <1>1, <1>2, <2>1, <2>2, <2>3, <2>4, DeliverType
<1>5. CASE ArriveSession
  <2>1. PICK s \in Destination :
            Deliver(Envelope("session", s)) /\ UNCHANGED <<stationMins, arrivals>>
    BY <1>5 DEF ArriveSession
  <2>2. Envelope("session", s) \in Envelopes
    BY MetaType
  <2>3. HandleIncoming(Envelope("session", s))
    BY <2>1 DEF Deliver
  <2>4. stationMins' \in [Station -> MIN] /\ arrivals' \in 0..MaxArrivals
    BY <2>1 DEF ClientTypeOK
  <2> QED BY <1>1, <2>1, <2>2, <2>3, <2>4, DeliverType
<1>6. ASSUME NEW c \in delivery.to, DeliverAgain(c)
      PROVE  ClientTypeOK'
  <2>1. delivery \in [msg : Envelopes, to : SUBSET subs]
    BY <1>6 DEF ClientTypeOK, Nothing
  <2>2. UNCHANGED subs
    BY <1>6 DEF DeliverAgain, HandleIncoming, link
  <2>3. delivery' = Nothing \/ delivery' = [delivery EXCEPT !.to = delivery.to \ {c}]
    BY <1>6 DEF DeliverAgain
  <2>4. delivery' \in Deliveries'
    BY <2>1, <2>2, <2>3 DEF Deliveries
  <2>5. stationMins' \in [Station -> MIN] /\ arrivals' \in 0..MaxArrivals
    BY <1>6 DEF DeliverAgain, ClientTypeOK
  <2>6. HandleIncoming(delivery.msg)
    BY <1>6 DEF DeliverAgain
  <2> QED BY <1>1, <2>1, <2>4, <2>5, <2>6
<1> QED BY <1>3, <1>4, <1>5, <1>6

-----------------------------------------------------------------------------
(* The messages on the screen. *)

LEMMA PlacesType ==
    ASSUME rows \in Seq(DcduMessage)
    PROVE  /\ IsFiniteSet(VisibleMessages)
           /\ Cardinality(VisibleMessages) \in Nat
           /\ Places \subseteq Nat
<1>1. IsFiniteSet(1..Len(rows))
  BY FS_Interval
<1>2. VisibleMessages \subseteq 1..Len(rows)
  BY DEF VisibleMessages
<1>3. IsFiniteSet(VisibleMessages)
  BY <1>1, <1>2, FS_Subset
<1> QED BY <1>3, FS_CardinalityType DEF Places

LEMMA KeysType ==
    ASSUME NEW S \in SUBSET Intent
    PROVE  Keys(ArrangeResponses(S)) \in SUBSET Intent
<1> DEFINE key == Intent \cup {""}
           grid == [topLeft : key, topRight : key, botLeft : key, botRight : key]
<1>1. \A i \in key : (IF i \in S THEN i ELSE "") \in key
  OBVIOUS
<1>2. CASE S = {}
  <2>1. ArrangeResponses(S) \in grid
    BY <1>2, FS_EmptySet DEF ArrangeResponses, Intent
  <2> QED BY <2>1 DEF Keys
<1>3. CASE S # {}
  <2>1. (CHOOSE i \in S : TRUE) \in key
    BY <1>3
  <2>2. ArrangeResponses(S) \in grid
    BY <2>1 DEF ArrangeResponses, Intent
  <2> QED BY <2>2 DEF Keys
<1> QED BY <1>2, <1>3

LEMMA ScreenType ==
    ASSUME TypeOK, Dcdu
    PROVE  TypeOK'
<1> /\ ClientTypeOK /\ rows \in Seq(DcduMessage) /\ mins \in [Destination -> MIN]
    /\ pending \in Seq(Flights) /\ sent \in Seq(Published) /\ closed \in BOOLEAN
    /\ session \in Destination
  BY DEF TypeOK, ClientTypeOK
<1> DOMAIN rows \subseteq Nat
  OBVIOUS
<1>1. ASSUME NEW i \in DOMAIN rows, NEW state \in Status, rows' = SetStatus(i, state),
             NEW flight \in Flights, NEW record \in Published, PublishAndAwait(flight, record),
             client # None, Write, UNCHANGED <<link, session, delivery, environment>>
      PROVE  ClientTypeOK'
  <2>1. rows' \in Seq(DcduMessage)
    BY <1>1, SetStatusType
  <2>2. pending' \in Seq(Flights) /\ mins' \in [Destination -> MIN] /\ sent' \in Seq(Published)
    BY <1>1, PublishType
  <2>3. written' \in 0..MaxWritten
    BY <1>1, BoundsAssumption DEF Write, ClientTypeOK
  <2> QED BY <1>1, <2>1, <2>2, <2>3 DEF ClientTypeOK, link, environment
<1>2. CASE HandleResponse
  <2>1. PICK i \in DOMAIN rows : \E intent \in Answers(i) : SendResponse(i, intent)
    BY <1>2 DEF HandleResponse
  <2>2. PICK intent \in Answers(i) : SendResponse(i, intent)
    BY <2>1
  <2>3. intent \in Intent
    <3>1. EffectiveIntents(i) \in SUBSET Intent
      BY RowAt DEF EffectiveIntents
    <3>2. Answers(i) \subseteq Intent
      BY <3>1, KeysType DEF Answers
    <3> QED BY <2>2, <3>2
  <2>4. Flight(intent, i, None) \in Flights
    BY <2>3, Numbers, FlightType DEF Kinds
  <2>5. Record(rows[i].from, rows[i].min, i, intent) \in Published
    <3>1. i \in Nat /\ rows[i].from \in Destination /\ rows[i].min \in 0..MaxMin
      BY RowAt
    <3> QED BY <2>3, <3>1, RecordType
  <2>6. ClientTypeOK'
    BY <1>1, <2>2, <2>4, <2>5 DEF SendResponse, Status
  <2> QED BY <1>2, <2>6 DEF HandleResponse, TypeOK, screens
<1>3. CASE SendKey
  <2>1. PICK j \in DOMAIN rows : SendDraft(j)
    BY <1>3 DEF SendKey
  <2>2. mins[session] \in 0..MaxMin
    BY Numbers
  <2>3. Flight("draft", j, mins[session]) \in Flights
    BY <2>2, FlightType DEF Kinds
  <2>4. Record(session, rows[j].mrn, j, "draft") \in Published
    <3>1. j \in Nat /\ rows[j].mrn \in 0..MaxMin
      BY RowAt
    <3> QED BY <3>1, RecordType
  <2>5. ClientTypeOK'
    BY <1>1, <2>1, <2>3, <2>4 DEF SendDraft, Status
  <2> QED BY <1>3, <2>5 DEF SendKey, TypeOK, screens
<1>4. ASSUME NEW place, GoTo(place)
      PROVE  TypeOK'
  BY <1>4, PlacesType DEF GoTo, TypeOK, ClientTypeOK, clientVars, link, dialogue, environment
<1> QED BY <1>2, <1>3, <1>4 DEF Dcdu

LEMMA WithoutType ==
    ASSUME elements \in Seq(Menu), NEW d
    PROVE  Without(d) \in Seq(Menu)
<1> DEFINE places == {i \in 1..Len(elements) : elements[i] = d}
<1>1. CASE places = {}
  BY <1>1 DEF Without, RemoveFirst
<1>2. CASE places # {}
  <2>1. places \subseteq Nat /\ places \subseteq DOMAIN elements
    OBVIOUS
  <2>2. Without(d) = RemoveAt(elements, Min(places))
    BY <1>2 DEF Without, RemoveFirst, SelectInSeq
  <2> HIDE DEF places
  <2>3. \E i \in places : \A j \in places : i <= j
    BY <1>2, <2>1, FirstExists
  <2>4. Min(places) \in DOMAIN elements
    BY <2>1, <2>3 DEF Min
  <2> QED BY <2>2, <2>4, RemoveAtSeq
<1> QED BY <1>1, <1>2

LEMMA CompositionType ==
    ASSUME TypeOK, Mcdu
    PROVE  TypeOK'
<1> /\ ClientTypeOK /\ rows \in Seq(DcduMessage) /\ mins \in [Destination -> MIN]
    /\ pending \in Seq(Flights) /\ closed \in BOOLEAN
    /\ viewIndex \in Nat /\ elements \in Seq(Menu)
  BY DEF TypeOK, ClientTypeOK
<1>1. ASSUME NEW d \in Menu, AddElement(d)
      PROVE  TypeOK'
  <2>1. elements' \in Seq(Menu)
    BY <1>1, WithoutType DEF AddElement
  <2> QED BY <1>1, <2>1 DEF AddElement, TypeOK, ClientTypeOK, clientVars, link, dialogue,
                            environment
<1>2. CASE EraseInputs
  BY <1>2, EmptySeq DEF EraseInputs, TypeOK, ClientTypeOK, clientVars, link, dialogue,
                        environment
<1>3. CASE DoTransferToDcdu
  <2> DEFINE open == {i \in DOMAIN rows : /\ ~rows[i].out /\ rows[i].min # None
                                         /\ rows[i].status \in {"open", "sent"}}
             mrn == IF open = {} THEN None ELSE rows[Max(open)].min
             draft == Message(TRUE, None, None, mrn, "draft", {}, elements)
  <2>1. mrn \in 0..MaxMin
    <3>1. CASE open = {}
      BY <3>1, Numbers
    <3>2. CASE open # {}
      <4>1. /\ open \subseteq 1..Len(rows) /\ Len(rows) \in Nat
            /\ open \subseteq DOMAIN rows
        OBVIOUS
      <4> HIDE DEF open
      <4>2. \E i \in open : \A j \in open : j <= i
        BY <3>2, <4>1, LastExists
      <4>3. \E i \in open : \A j \in open : i >= j
        BY <4>1, <4>2
      <4>4. Max(open) \in open
        BY <4>3 DEF Max
      <4>5. Max(open) \in DOMAIN rows
        BY <4>1, <4>4, Zenon
      <4> QED BY <3>2, <4>5, RowAt
    <3> QED BY <3>1, <3>2
  <2>2. elements \in Seq({"DM"} \X Nat)
    BY MenuAssumption
  <2>3. draft \in DcduMessage
    <3> HIDE DEF mrn
    <3> QED BY <2>1, <2>2, Numbers, MessageType DEF Status, Destination
  <2>4. rows' = Append(rows, draft)
    BY <1>3 DEF DoTransferToDcdu, TransferToDcdu
  <2> HIDE DEF draft
  <2>5. rows' \in Seq(DcduMessage)
    BY <2>3, <2>4
  <2>6. /\ elements' \in Seq(Menu)
        /\ UNCHANGED <<viewIndex, link, session, mins, pending, sent, written, delivery,
                       environment>>
    BY <1>3, EmptySeq DEF DoTransferToDcdu, TransferToDcdu
  <2> QED BY <2>5, <2>6 DEF TypeOK, ClientTypeOK, link, environment
<1>4. ASSUME NEW s \in Station, Notify(s)
      PROVE  TypeOK'
  <2>1. s \in Destination
    BY DEF Destination
  <2>2. mins' \in [Destination -> MIN]
    BY <1>4, <2>1, Numbers DEF Notify, SendLogonRequest
  <2>3. Flight("logon", 0, None) \in Flights
    BY Numbers, FlightType DEF Kinds
  <2>4. pending' \in Seq(Flights)
    BY <1>4, <2>3 DEF Notify, SendLogonRequest
  <2>5. written' \in 0..MaxWritten
    BY <1>4, BoundsAssumption DEF Notify, SendLogonRequest, Write, ClientTypeOK
  <2> QED BY <1>4, <2>2, <2>4, <2>5 DEF Notify, SendLogonRequest, TypeOK, ClientTypeOK, link,
                                        environment, screens
<1> QED BY <1>1, <1>2, <1>3, <1>4 DEF Mcdu

LEMMA TypeStep ==
    ASSUME TypeOK, [Next]_vars
    PROVE  TypeOK'
<1> ClientTypeOK /\ viewIndex \in Nat /\ elements \in Seq(Menu)
  BY DEF TypeOK
<1>1. ASSUME ClientTypeOK', UNCHANGED screens
      PROVE  TypeOK'
  BY <1>1 DEF TypeOK, screens
<1>2. CASE ClientStep /\ UNCHANGED screens
  BY <1>1, <1>2, ConnectionType, PromiseType, ArrivalType DEF ClientStep
<1>3. CASE (Connect \/ Disconnect) /\ UNCHANGED screens
  BY <1>1, <1>3, ConnectionType
<1>4. CASE LeaveCockpit
  <2>1. ClientTypeOK'
    BY <1>4, ConnectionType DEF LeaveCockpit
  <2> QED BY <1>4, <2>1, EmptySeq DEF LeaveCockpit, TypeOK
<1>5. CASE Cockpit /\ (Dcdu \/ Mcdu)
  BY <1>5, ScreenType, CompositionType
<1>6. CASE UNCHANGED vars
  BY <1>6 DEF vars, screens, clientVars, link, dialogue, environment, TypeOK, ClientTypeOK
<1> QED BY <1>2, <1>3, <1>4, <1>5, <1>6 DEF Next

(* Every variable keeps its type, whatever the counts of stations,         *)
(* messages and failures: among others, MINs stay in range, and what waits *)
(* for a listener waits for one that still listens (useOpenLink.ts, the    *)
(* SDK's MIN sequences).                                                   *)
THEOREM TypeCorrect == Spec => []TypeOK
<1>1. Init => TypeOK
  <2>1. ClientInit => mins \in [Destination -> MIN] /\ stationMins \in [Station -> MIN]
    BY Numbers DEF ClientInit
  <2>2. Init => ClientTypeOK
    BY <2>1, BoundsAssumption, EmptySeq
    DEF Init, ClientInit, ClientTypeOK, Destination, None
  <2> QED BY <2>2, EmptySeq DEF Init, TypeOK
<1>2. TypeOK /\ [Next]_vars => TypeOK'
  BY TypeStep
<1> QED BY <1>1, <1>2, PTL DEF Spec

-----------------------------------------------------------------------------
(* What is awaited, before and after a step. *)

LEMMA PendingAdded ==
    ASSUME pending \in Seq(Flights), NEW f, f \in Flights, pending' = Append(pending, f)
    PROVE  /\ DOMAIN pending' = DOMAIN pending \cup {Len(pending) + 1}
           /\ Len(pending) + 1 \notin DOMAIN pending
           /\ \A k \in DOMAIN pending : pending'[k] = pending[k]
           /\ pending'[Len(pending) + 1] = f
OBVIOUS

LEMMA PendingRemoved ==
    ASSUME pending \in Seq(Flights), NEW i \in DOMAIN pending, pending' = RemoveAt(pending, i)
    PROVE  /\ \A k \in DOMAIN pending' : /\ PlaceBefore(i, k) \in DOMAIN pending \ {i}
                                        /\ pending'[k] = pending[PlaceBefore(i, k)]
           /\ \A j, k \in DOMAIN pending' : PlaceBefore(i, j) = PlaceBefore(i, k) => j = k
           /\ \A k \in DOMAIN pending \ {i} : \E j \in DOMAIN pending' : PlaceBefore(i, j) = k
<1>1. /\ pending' \in Seq(Flights) /\ Len(pending') = Len(pending) - 1
      /\ \A j \in 1..(Len(pending) - 1) : pending'[j] = pending[PlaceBefore(i, j)]
  BY RemoveAtSeq
<1>2. /\ DOMAIN pending = 1..Len(pending) /\ DOMAIN pending' = 1..(Len(pending) - 1)
      /\ Len(pending) \in Nat /\ i \in 1..Len(pending)
  BY <1>1
<1>3. \A k \in DOMAIN pending' : PlaceBefore(i, k) \in DOMAIN pending \ {i}
  BY <1>2 DEF PlaceBefore
<1>4. \A j, k \in DOMAIN pending' : PlaceBefore(i, j) = PlaceBefore(i, k) => j = k
  BY <1>2 DEF PlaceBefore
<1>5. ASSUME NEW k \in DOMAIN pending \ {i}
      PROVE  \E j \in DOMAIN pending' : PlaceBefore(i, j) = k
  <2>1. CASE k < i
    <3>1. k \in DOMAIN pending' /\ PlaceBefore(i, k) = k
      BY <1>2, <2>1 DEF PlaceBefore
    <3> QED BY <3>1
  <2>2. CASE k > i
    <3>1. k - 1 \in DOMAIN pending' /\ PlaceBefore(i, k - 1) = k
      BY <1>2, <2>2 DEF PlaceBefore
    <3> QED BY <3>1
  <2> QED BY <1>2, <2>1, <2>2
<1> QED BY <1>1, <1>2, <1>3, <1>4, <1>5

LEMMA SettledAt ==
    ASSUME Flushed \/ FlushFailed
    PROVE  \E i \in DOMAIN pending, ok \in BOOLEAN :
               /\ Settle(pending[i], ok) /\ pending' = RemoveAt(pending, i)
               /\ pending[i].lost <=> ~ok
<1>1. CASE Flushed
  BY <1>1 DEF Flushed
<1>2. CASE FlushFailed
  BY <1>2 DEF FlushFailed
<1> QED BY <1>1, <1>2

(* Messages that arrive and keys of the screens leave the connection as it *)
(* is, and await nothing but what they published.                          *)
Traffic ==
    \/ ArriveApplication \/ ArriveMeta \/ ArriveSession
    \/ \E c \in delivery.to : DeliverAgain(c)
    \/ Dcdu \/ Mcdu

Awaited(f) == f \in Flights /\ f.kind \notin {"online", "offline"}

LEMMA TrafficIsQuiet ==
    ASSUME TypeOK, Traffic
    PROVE  /\ UNCHANGED <<link, connects, faults>>
           /\ UNCHANGED pending \/ \E f : Awaited(f) /\ pending' = Append(pending, f)
<1> closed \in BOOLEAN /\ mins \in [Destination -> MIN] /\ session \in Destination
    /\ rows \in Seq(DcduMessage)
  BY DEF TypeOK, ClientTypeOK
<1>1. ASSUME NEW m, HandleIncoming(m)
      PROVE  UNCHANGED <<link, connects, faults, pending>>
  BY <1>1 DEF HandleIncoming
<1>2. CASE ArriveApplication \/ ArriveMeta \/ ArriveSession
           \/ \E c \in delivery.to : DeliverAgain(c)
  <2>1. \E m : HandleIncoming(m)
    BY <1>2 DEF ArriveApplication, ArriveMeta, ArriveSession, Deliver, DeliverAgain
  <2> QED BY <1>1, <2>1
<1>3. ASSUME NEW i \in DOMAIN rows, NEW intent \in Answers(i), SendResponse(i, intent)
      PROVE  /\ UNCHANGED <<link, connects, faults>>
             /\ \E f : Awaited(f) /\ pending' = Append(pending, f)
  <2>1. EffectiveIntents(i) \in SUBSET Intent
    BY RowAt DEF EffectiveIntents
  <2>2. intent \in Intent
    BY <1>3, <2>1, KeysType DEF Answers
  <2>3. i \in Nat
    OBVIOUS
  <2>4. Flight(intent, i, None) \in Flights
    BY <2>2, <2>3, Numbers, FlightType DEF Kinds
  <2>5. Awaited(Flight(intent, i, None))
    BY <2>2, <2>4 DEF Awaited, Flight, Intent
  <2> QED BY <1>3, <2>5 DEF SendResponse, PublishAndAwait, environment
<1>4. ASSUME NEW j \in DOMAIN rows, SendDraft(j)
      PROVE  /\ UNCHANGED <<link, connects, faults>>
             /\ \E f : Awaited(f) /\ pending' = Append(pending, f)
  <2>1. mins[session] \in 0..MaxMin /\ j \in Nat
    <3>1. j \in Nat
      OBVIOUS
    <3> QED BY <3>1, Numbers
  <2>2. Flight("draft", j, mins[session]) \in Flights
    BY <2>1, FlightType DEF Kinds
  <2>3. Awaited(Flight("draft", j, mins[session]))
    BY <2>2 DEF Awaited, Flight
  <2> QED BY <1>4, <2>3 DEF SendDraft, PublishAndAwait, environment
<1>5. CASE Dcdu
  <2>1. CASE HandleResponse
    BY <1>3, <2>1 DEF HandleResponse
  <2>2. CASE SendKey
    BY <1>4, <2>2 DEF SendKey
  <2>3. ASSUME NEW place, GoTo(place)
        PROVE  UNCHANGED <<link, connects, faults, pending>>
    BY <2>3 DEF GoTo, clientVars, dialogue, environment
  <2> QED BY <1>5, <2>1, <2>2, <2>3 DEF Dcdu
<1>6. ASSUME NEW s \in Station, Notify(s)
      PROVE  /\ UNCHANGED <<link, connects, faults>>
             /\ \E f : Awaited(f) /\ pending' = Append(pending, f)
  <2>1. Flight("logon", 0, None) \in Flights
    BY Numbers, FlightType DEF Kinds
  <2>2. Awaited(Flight("logon", 0, None))
    BY <2>1 DEF Awaited, Flight
  <2> QED BY <1>6, <2>2 DEF Notify, SendLogonRequest, environment
<1>7. CASE Mcdu
  <2>1. (\E d \in Menu : AddElement(d)) \/ EraseInputs \/ DoTransferToDcdu
        => UNCHANGED <<link, connects, faults, pending>>
    BY DEF AddElement, EraseInputs, DoTransferToDcdu, TransferToDcdu, clientVars, dialogue,
           environment
  <2> QED BY <1>6, <1>7, <2>1 DEF Mcdu
<1> QED BY <1>2, <1>5, <1>7 DEF Traffic

LEMMA StepKinds ==
    ASSUME Next
    PROVE  \/ Connect \/ Connected \/ ConnectFails \/ Heartbeat \/ Disconnect \/ LeaveCockpit
           \/ Flushed \/ FlushFailed
           \/ \E forGood \in BOOLEAN : Break(forGood)
           \/ Traffic
BY DEF Next, ClientStep, Traffic

-----------------------------------------------------------------------------
(* Leaving. *)

Once(kind) ==
    \A j, k \in DOMAIN pending : pending[j].kind = kind /\ pending[k].kind = kind => j = k

(* Who leaves was connected and has no timer; one connection is opened and *)
(* one farewell awaited at a time.                                         *)
LinkInv ==
    /\ client = None => presence # "online"
    /\ status = "connecting" => connects # 0
    /\ leaving # "no" => status = "connected" /\ ~beating
    /\ leaving = "drain" => ~closed
    /\ leaving # "no" /\ ~closed => presence # "online"
    /\ Awaits("online") => status = "connecting" /\ client # None
    /\ Awaits("offline") => leaving # "no"
    /\ Once("online") /\ Once("offline")

LEMMA KindsAdded ==
    ASSUME pending \in Seq(Flights), NEW f \in Flights, pending' = Append(pending, f), NEW kind
    PROVE  /\ Awaits(kind)' <=> Awaits(kind) \/ f.kind = kind
           /\ Once(kind) /\ (f.kind # kind \/ ~Awaits(kind)) => Once(kind)'
<1>1. /\ DOMAIN pending' = DOMAIN pending \cup {Len(pending) + 1}
      /\ \A k \in DOMAIN pending : pending'[k] = pending[k]
      /\ pending'[Len(pending) + 1] = f
  BY PendingAdded
<1> QED BY <1>1 DEF Awaits, Once

LEMMA KindsRemoved ==
    ASSUME pending \in Seq(Flights), NEW i \in DOMAIN pending, pending' = RemoveAt(pending, i),
           NEW kind
    PROVE  /\ Awaits(kind)' => Awaits(kind)
           /\ pending[i].kind = kind /\ Once(kind) => ~Awaits(kind)'
           /\ pending[i].kind # kind /\ Awaits(kind) => Awaits(kind)'
           /\ Once(kind) => Once(kind)'
<1>1. /\ \A k \in DOMAIN pending' : /\ PlaceBefore(i, k) \in DOMAIN pending \ {i}
                                    /\ pending'[k] = pending[PlaceBefore(i, k)]
      /\ \A j, k \in DOMAIN pending' : PlaceBefore(i, j) = PlaceBefore(i, k) => j = k
      /\ \A k \in DOMAIN pending \ {i} : \E j \in DOMAIN pending' : PlaceBefore(i, j) = k
  BY PendingRemoved
<1>2. Awaits(kind)' => Awaits(kind)
  BY <1>1 DEF Awaits
<1>3. pending[i].kind = kind /\ Once(kind) => ~Awaits(kind)'
  BY <1>1 DEF Awaits, Once
<1>4. pending[i].kind # kind /\ Awaits(kind) => Awaits(kind)'
  BY <1>1 DEF Awaits
<1>5. Once(kind) => Once(kind)'
  BY <1>1 DEF Once
<1> QED BY <1>2, <1>3, <1>4, <1>5

LEMMA LinkStep ==
    ASSUME TypeOK, LinkInv, [Next]_vars
    PROVE  LinkInv'
<1> /\ pending \in Seq(Flights) /\ closed \in BOOLEAN /\ beating \in BOOLEAN
    /\ status \in {"disconnected", "connecting", "connected"}
    /\ leaving \in {"no", "offline", "drain"}
  BY DEF TypeOK, ClientTypeOK
<1>1. CASE Connect
  BY <1>1, BoundsAssumption DEF Connect, dialogue, LinkInv, Awaits, Once, TypeOK, ClientTypeOK
<1>2. CASE Connected
  <2> DEFINE f == [Flight("online", 0, None) EXCEPT !.lost = FALSE]
  <2>1. f \in Flights /\ f.kind = "online"
    BY Numbers DEF Flight, Flights
  <2>2. pending' = Append(pending, f)
    BY <1>2 DEF Connected
  <2> HIDE DEF f
  <2>3. /\ Awaits("offline")' <=> Awaits("offline")
        /\ Once("online") => Once("online")'
        /\ Once("offline") => Once("offline")'
    BY <1>2, <2>1, <2>2, KindsAdded DEF Connected
  <2> QED BY <1>2, <2>3 DEF Connected, environment, LinkInv, None
<1>3. CASE ConnectFails
  BY <1>3 DEF ConnectFails, dialogue, LinkInv, Awaits, Once
<1>4. CASE Heartbeat
  BY <1>4 DEF Heartbeat, dialogue, environment, LinkInv, Awaits, Once
<1>5. CASE Disconnect
  <2> DEFINE f == Flight("offline", 0, None)
  <2>1. f \in Flights /\ f.kind = "offline"
    <3>1. f \in Flights
      BY Numbers, FlightType DEF Kinds
    <3> QED BY <3>1 DEF Flight
  <2>2. pending' = Append(pending, f)
    BY <1>5 DEF Disconnect
  <2> HIDE DEF f
  <2>3. /\ Awaits("online")' <=> Awaits("online")
        /\ Once("online") => Once("online")'
        /\ Once("offline") => Once("offline")'
    BY <1>5, <2>1, <2>2, KindsAdded DEF Disconnect
  <2> QED BY <1>5, <2>3 DEF Disconnect, environment, LinkInv, BeatingAfter
<1>6. CASE LeaveCockpit
  <2>1. pending' = << >>
    BY <1>6 DEF LeaveCockpit, Drained
  <2>2. \A kind : ~Awaits(kind)' /\ Once(kind)'
    BY <2>1 DEF Awaits, Once
  <2>3. presence # "online" /\ UNCHANGED presence
    BY <1>6 DEF LeaveCockpit, Drained, LinkInv
  <2> QED BY <1>6, <2>2, <2>3 DEF LeaveCockpit, Drained, LinkInv
<1>7. CASE Flushed \/ FlushFailed
  <2>1. PICK i \in DOMAIN pending, ok \in BOOLEAN :
            Settle(pending[i], ok) /\ pending' = RemoveAt(pending, i)
    BY <1>7, SettledAt
  <2> DEFINE f == pending[i]
  <2>2. /\ Once("online") => Once("online")' /\ (f.kind = "online" => ~Awaits("online")')
        /\ Once("offline") => Once("offline")' /\ (f.kind = "offline" => ~Awaits("offline")')
        /\ Awaits("online")' => Awaits("online")
        /\ Awaits("offline")' => Awaits("offline")
    BY <2>1, KindsRemoved
  <2>3. UNCHANGED <<client, closed, presence, connects>>
    BY <2>1 DEF Settle, environment
  <2>4. Awaits(f.kind)
    BY DEF Awaits
  <2>5. CASE f.kind = "online"
    <3>1. UNCHANGED leaving /\ status' \in {"connected", "disconnected"}
      BY <2>1, <2>5 DEF Settle
    <3>2. leaving = "no" /\ client # None
      BY <2>4, <2>5 DEF LinkInv
    <3> QED BY <2>2, <2>3, <2>5, <3>1, <3>2 DEF LinkInv
  <2>6. CASE f.kind = "offline"
    <3>1. UNCHANGED <<status, beating>> /\ leaving' = IF closed THEN "no" ELSE "drain"
      BY <2>1, <2>6 DEF Settle, Leave
    <3>2. leaving # "no"
      BY <2>4, <2>6 DEF LinkInv
    <3> QED BY <2>2, <2>3, <2>6, <3>1, <3>2 DEF LinkInv
  <2>7. CASE f.kind \notin {"online", "offline"}
    <3>1. UNCHANGED <<status, beating, leaving>>
      BY <2>1, <2>7 DEF Settle
    <3> QED BY <2>2, <2>3, <3>1 DEF LinkInv
  <2> QED BY <2>5, <2>6, <2>7
<1>8. ASSUME NEW forGood \in BOOLEAN, Break(forGood)
      PROVE  LinkInv'
  <2>1. /\ DOMAIN pending' = DOMAIN pending
        /\ \A k \in DOMAIN pending : pending'[k].kind = pending[k].kind
    <3>1. \A f \in Flights : [f EXCEPT !.lost = TRUE].kind = f.kind
      BY DEF Flights
    <3>2. \A k \in DOMAIN pending : pending[k] \in Flights
      OBVIOUS
    <3>3. /\ DOMAIN pending' = DOMAIN pending
          /\ \A k \in DOMAIN pending : pending'[k] = [pending[k] EXCEPT !.lost = TRUE]
      BY <1>8 DEF Break
    <3> QED BY <3>1, <3>2, <3>3
  <2>2. \A kind : (Awaits(kind)' <=> Awaits(kind)) /\ (Once(kind)' <=> Once(kind))
    BY <2>1 DEF Awaits, Once
  <2> QED BY <1>8, <2>2 DEF Break, LinkInv
<1>9. CASE Traffic
  <2>1. UNCHANGED <<link, connects>>
    BY <1>9, TrafficIsQuiet
  <2>2. \A kind \in {"online", "offline"} : /\ Awaits(kind)' <=> Awaits(kind)
                                            /\ Once(kind) => Once(kind)'
    <3>1. CASE UNCHANGED pending
      BY <3>1 DEF Awaits, Once
    <3>2. ASSUME NEW f, Awaited(f), pending' = Append(pending, f)
          PROVE  \A kind \in {"online", "offline"} : /\ Awaits(kind)' <=> Awaits(kind)
                                                     /\ Once(kind) => Once(kind)'
      BY <3>2, KindsAdded DEF Awaited
    <3> QED BY <1>9, <3>1, <3>2, TrafficIsQuiet
  <2> QED BY <2>1, <2>2 DEF link, LinkInv
<1>10. CASE UNCHANGED vars
  BY <1>10 DEF vars, clientVars, link, dialogue, environment, LinkInv, Awaits, Once
<1> QED BY <1>1, <1>2, <1>3, <1>4, <1>5, <1>6, <1>7, <1>8, <1>9, <1>10, StepKinds

LEMMA LinkHolds == Spec => []LinkInv
<1>1. Init => LinkInv
  BY DEF Init, ClientInit, LinkInv, Awaits, Once
<1>2. TypeOK /\ LinkInv /\ [Next]_vars => LinkInv'
  BY LinkStep
<1> QED BY <1>1, <1>2, TypeCorrect, PTL DEF Spec

(* Who left is not announced again, however often connections were opened, *)
(* broken and given up before, and whatever was sent and arrived meanwhile *)
(* (disconnectFromOpenLink, the timer of the heartbeat).                   *)
THEOREM FarewellCorrect == Spec => []FarewellIsLast
<1>1. LinkInv => FarewellIsLast
  BY DEF LinkInv, FarewellIsLast
<1> QED BY <1>1, LinkHolds, PTL

-----------------------------------------------------------------------------
(* Listening. *)

(* Without faults a connection is being opened, or is open, until it is    *)
(* left.                                                                   *)
HeardInv ==
    faults = 0 =>
        /\ ~closed
        /\ HeardOnce
        /\ client # None => status = "connected" \/ Awaits("online")
        /\ \A k \in DOMAIN pending : pending[k].kind = "online" => ~pending[k].lost

LEMMA HeardStep ==
    ASSUME TypeOK, LinkInv, HeardInv, [Next]_vars
    PROVE  HeardInv'
<1> SUFFICES ASSUME faults' = 0
             PROVE  HeardInv'
  BY DEF HeardInv
<1> /\ pending \in Seq(Flights) /\ closed \in BOOLEAN /\ beating \in BOOLEAN
    /\ status \in {"disconnected", "connecting", "connected"}
    /\ leaving \in {"no", "offline", "drain"} /\ faults \in Nat /\ connects \in Nat
  BY BoundsAssumption DEF TypeOK, ClientTypeOK
<1> DEFINE OnlineKept == \A k \in DOMAIN pending : pending[k].kind = "online" => ~pending[k].lost
<1>1. CASE Connect
  BY <1>1 DEF Connect, dialogue, HeardInv, HeardOnce, LinkInv, Awaits
<1>2. CASE Connected
  <2> DEFINE f == [Flight("online", 0, None) EXCEPT !.lost = FALSE]
  <2>1. f \in Flights /\ f.kind = "online" /\ ~f.lost
    BY Numbers DEF Flight, Flights
  <2>2. pending' = Append(pending, f)
    BY <1>2 DEF Connected
  <2> HIDE DEF f
  <2>3. Awaits("online")'
    BY <2>1, <2>2, KindsAdded
  <2>4. faults = 0 => OnlineKept'
    BY <2>1, <2>2, PendingAdded DEF HeardInv
  <2>5. client = None \/ faults # 0
    BY <1>2 DEF Connected, HeardInv
  <2>6. connects # 0 /\ leaving = "no"
    BY <1>2 DEF Connected, LinkInv
  <2>7. faults = 0 /\ UNCHANGED leaving
    BY <1>2 DEF Connected, environment
  <2>8. subs = {}
    BY <2>5, <2>7 DEF HeardInv, HeardOnce
  <2>9. ~closed' /\ client' = connects /\ subs' = {connects}
    BY <1>2, <2>8 DEF Connected
  <2> HIDE DEF OnlineKept
  <2>10. HeardOnce'
    BY <2>6, <2>7, <2>9 DEF HeardOnce, None
  <2> USE DEF OnlineKept
  <2> QED BY <2>3, <2>4, <2>7, <2>9, <2>10 DEF HeardInv
<1>3. CASE ConnectFails
  BY <1>3 DEF ConnectFails
<1>4. CASE Heartbeat
  BY <1>4 DEF Heartbeat, dialogue, environment, HeardInv, HeardOnce, Awaits
<1>5. CASE Disconnect
  <2> DEFINE f == Flight("offline", 0, None)
  <2>1. f \in Flights /\ f.kind = "offline"
    <3>1. f \in Flights
      BY Numbers, FlightType DEF Kinds
    <3> QED BY <3>1 DEF Flight
  <2>2. pending' = Append(pending, f)
    BY <1>5 DEF Disconnect
  <2> HIDE DEF f
  <2>3. OnlineKept => OnlineKept'
    BY <2>1, <2>2, PendingAdded
  <2>4. /\ UNCHANGED <<status, client, subs, closed, faults>> /\ status = "connected"
        /\ leaving' = "drain" <=> leaving = "drain"
    BY <1>5 DEF Disconnect, environment
  <2>5. HeardOnce => HeardOnce'
    BY <2>4 DEF HeardOnce
  <2> QED BY <2>3, <2>4, <2>5 DEF HeardInv
<1>6. CASE LeaveCockpit
  <2>1. /\ pending' = << >> /\ client' = None /\ leaving = "drain" /\ leaving' = "no"
        /\ UNCHANGED <<closed, subs, faults>>
    BY <1>6 DEF LeaveCockpit, Drained, environment
  <2>2. HeardOnce => HeardOnce'
    BY <2>1 DEF HeardOnce
  <2>3. OnlineKept'
    BY <2>1
  <2> QED BY <2>1, <2>2, <2>3 DEF HeardInv
<1>7. CASE Flushed \/ FlushFailed
  <2>1. PICK i \in DOMAIN pending, ok \in BOOLEAN :
            /\ Settle(pending[i], ok) /\ pending' = RemoveAt(pending, i)
            /\ pending[i].lost <=> ~ok
    BY <1>7, SettledAt
  <2> DEFINE f == pending[i]
  <2>2. UNCHANGED <<client, closed, faults>>
    BY <2>1 DEF Settle, environment
  <2>3. OnlineKept => OnlineKept'
    BY <2>1, PendingRemoved
  <2>4. f.kind # "online" /\ Awaits("online") => Awaits("online")'
    BY <2>1, KindsRemoved
  <2>5. CASE f.kind = "online"
    <3>1. status' = "connected" /\ UNCHANGED <<leaving, subs>>
      BY <2>1, <2>2, <2>5 DEF Settle, HeardInv
    <3>2. HeardOnce => HeardOnce'
      BY <2>2, <3>1 DEF HeardOnce
    <3> QED BY <2>2, <2>3, <3>1, <3>2 DEF HeardInv
  <2>6. CASE f.kind = "offline"
    <3>1. /\ UNCHANGED status /\ leaving' = IF closed THEN "no" ELSE "drain"
          /\ subs' = subs \ {client}
      BY <2>1, <2>6 DEF Settle, Leave, Unlisten
    <3>2. ~closed /\ HeardOnce /\ faults = 0
      BY <2>2 DEF HeardInv
    <3>3. subs' = {} /\ leaving' = "drain"
      BY <3>1, <3>2 DEF HeardOnce
    <3>4. HeardOnce'
      BY <3>3 DEF HeardOnce
    <3> QED BY <2>2, <2>3, <2>4, <2>6, <3>1, <3>4 DEF HeardInv
  <2>7. CASE f.kind \notin {"online", "offline"}
    <3>1. UNCHANGED <<status, leaving, subs>>
      BY <2>1, <2>7 DEF Settle
    <3>2. HeardOnce => HeardOnce'
      BY <2>2, <3>1 DEF HeardOnce
    <3> QED BY <2>2, <2>3, <2>4, <2>7, <3>1, <3>2 DEF HeardInv
  <2> QED BY <2>5, <2>6, <2>7
<1>8. ASSUME NEW forGood \in BOOLEAN, Break(forGood)
      PROVE  HeardInv'
  BY <1>8 DEF Break
<1>9. CASE Traffic
  <2>1. UNCHANGED <<link, faults>>
    BY <1>9, TrafficIsQuiet
  <2>2. /\ Awaits("online") => Awaits("online")'
        /\ OnlineKept => OnlineKept'
    <3>1. CASE UNCHANGED pending
      BY <3>1 DEF Awaits
    <3>2. ASSUME NEW f, Awaited(f), pending' = Append(pending, f)
          PROVE  /\ Awaits("online") => Awaits("online")'
                 /\ OnlineKept => OnlineKept'
      <4>1. f \in Flights /\ f.kind # "online"
        BY <3>2 DEF Awaited
      <4> QED BY <3>2, <4>1, KindsAdded, PendingAdded
    <3> QED BY <1>9, <3>1, <3>2, TrafficIsQuiet
  <2>3. HeardOnce => HeardOnce'
    BY <2>1 DEF link, HeardOnce
  <2> QED BY <2>1, <2>2, <2>3 DEF link, HeardInv
<1>10. CASE UNCHANGED vars
  BY <1>10 DEF vars, clientVars, link, dialogue, environment, HeardInv, HeardOnce, Awaits
<1> QED BY <1>1, <1>2, <1>3, <1>4, <1>5, <1>6, <1>7, <1>8, <1>9, <1>10, StepKinds

LEMMA HeardHolds == Spec => []HeardInv
<1>1. Init => HeardInv
  BY DEF Init, ClientInit, HeardInv, HeardOnce, Awaits
<1>2. TypeOK /\ LinkInv /\ HeardInv /\ [Next]_vars => HeardInv'
  BY HeardStep
<1> QED BY <1>1, <1>2, TypeCorrect, LinkHolds, PTL DEF Spec

(* Without a failed connection, no message is handled twice, and none      *)
(* after leaving, however often the pilot connects and leaves              *)
(* (connectToOpenLink, disconnectFromOpenLink).                            *)
THEOREM HeardOnceCorrect == Spec => []HeardOnce
<1>1. HeardInv => HeardOnce
  BY DEF HeardInv, HeardOnce
<1> QED BY <1>1, HeardHolds, PTL

-----------------------------------------------------------------------------
(* Rows and what is awaited for them. *)

(* What becomes a draft was written here; a promise to send one is about   *)
(* it still.                                                               *)
DraftInv ==
    /\ \A i \in DOMAIN rows : rows[i].status \in {"draft", "sending"} => rows[i].out
    /\ \A k \in DOMAIN pending :
          pending[k].kind = "draft" => pending[k].row \in DOMAIN rows /\ rows[pending[k].row].out

(* The body of ReopenedByItsAnswer.                                        *)
StaysClosed ==
    \A i \in DOMAIN rows \cap DOMAIN rows' :
        ~rows[i].out /\ rows[i].status = "responded" /\ rows'[i].status # "responded"
        => AwaitedFor(i, Intent)

(* No row is forgotten, and each stays an uplink or one of ours.           *)
RowsStay ==
    /\ DOMAIN rows \subseteq DOMAIN rows'
    /\ \A i \in DOMAIN rows : rows'[i].out = rows[i].out

(* Nothing awaited is forgotten.                                           *)
Carried ==
    \A k \in DOMAIN pending : \E j \in DOMAIN pending' :
        pending'[j].row = pending[k].row /\ pending'[j].kind = pending[k].kind

(* What is awaited for a row of ours, or was awaited before.               *)
DraftsKnown ==
    \A j \in DOMAIN pending' :
        pending'[j].kind = "draft" =>
            \/ pending'[j].row \in DOMAIN rows /\ rows[pending'[j].row].out
            \/ \E k \in DOMAIN pending :
                  pending'[j].row = pending[k].row /\ pending'[j].kind = pending[k].kind

LEMMA HeardRows ==
    ASSUME TypeOK, NEW m \in Envelopes, HandleIncoming(m)
    PROVE  /\ RowsStay
           /\ \A i \in DOMAIN rows : \/ rows'[i].status = rows[i].status
                                     \/ rows'[i].status = "responded"
           /\ \A i \in DOMAIN rows' \ DOMAIN rows : rows'[i].status \in {"open", "responded"}
<1> DEFINE Result == /\ RowsStay
                     /\ \A i \in DOMAIN rows : \/ rows'[i].status = rows[i].status
                                               \/ rows'[i].status = "responded"
                     /\ \A i \in DOMAIN rows' \ DOMAIN rows :
                           rows'[i].status \in {"open", "responded"}
<1> SUFFICES Result
  OBVIOUS
<1> rows \in Seq(DcduMessage)
  BY DEF TypeOK, ClientTypeOK
<1>1. \A i \in DOMAIN rows : rows[i] \in DcduMessage
  OBVIOUS
<1>2. ASSUME NEW old \in Seq(DcduMessage), NEW new, DOMAIN old = DOMAIN rows,
             \A i \in DOMAIN rows : /\ old[i].out = rows[i].out
                                    /\ \/ old[i].status = rows[i].status
                                       \/ old[i].status = "responded",
             new.status \in {"open", "responded"}, rows' = Append(old, new)
      PROVE  Result
  <2>1. /\ DOMAIN rows' = DOMAIN old \cup {Len(old) + 1}
        /\ Len(old) + 1 \notin DOMAIN old
        /\ \A i \in DOMAIN old : rows'[i] = old[i]
        /\ rows'[Len(old) + 1] = new
    BY <1>2
  <2> QED BY <1>2, <2>1 DEF RowsStay
<1>3. CASE UNCHANGED rows
  BY <1>3 DEF RowsStay
<1>4. CASE Acknowledge(m)
  <2>1. \A r \in DcduMessage : /\ [r EXCEPT !.acknowledged = TRUE].out = r.out
                               /\ [r EXCEPT !.acknowledged = TRUE].status = r.status
    BY DEF DcduMessage
  <2>2. DOMAIN rows' = DOMAIN rows
    BY <1>4 DEF Acknowledge
  <2>3. \A i \in DOMAIN rows : rows'[i] = rows[i]
                               \/ rows'[i] = [rows[i] EXCEPT !.acknowledged = TRUE]
    BY <1>4 DEF Acknowledge
  <2>4. \A i \in DOMAIN rows : rows'[i].out = rows[i].out /\ rows'[i].status = rows[i].status
    <3> HIDE DEF Result
    <3> QED BY <1>1, <2>1, <2>3, Zenon
  <2> QED BY <2>2, <2>4 DEF RowsStay
<1>5. CASE Display(m)
  <2>1. CASE RootOf(m) = None
    <3> DEFINE new == Message(FALSE, m.from, m.min, m.mrn, "open",
                              ResponseIntents(m.elements), << >>)
    <3>1. rows' = Append(rows, new)
      BY <1>5, <2>1, Zenon DEF Display
    <3>2. new.status = "open"
      BY DEF Message
    <3> HIDE DEF new, Result
    <3> QED BY <1>2, <3>1, <3>2
  <2>2. CASE RootOf(m) # None
    <3> DEFINE old == CloseUplink(RootOf(m))
               new == Message(FALSE, m.from, m.min, RootOf(m), "responded", {}, << >>)
    <3>1. rows' = Append(old, new)
      BY <1>5, <2>2, Zenon DEF Display
    <3>2. new.status = "responded"
      BY DEF Message
    <3>3. old \in Seq(DcduMessage)
      BY CloseUplinkType
    <3>4. \A r \in DcduMessage : /\ [r EXCEPT !.status = "responded"].out = r.out
                                 /\ [r EXCEPT !.status = "responded"].status = "responded"
      BY DEF DcduMessage
    <3>5. DOMAIN old = DOMAIN rows
      BY DEF CloseUplink
    <3>6. \A i \in DOMAIN rows : old[i] = rows[i]
                                 \/ old[i] = [rows[i] EXCEPT !.status = "responded"]
      BY DEF CloseUplink
    <3> HIDE DEF old, new
    <3>7. \A i \in DOMAIN rows : /\ old[i].out = rows[i].out
                                 /\ \/ old[i].status = rows[i].status
                                    \/ old[i].status = "responded"
      BY <1>1, <3>4, <3>6
    <3> HIDE DEF Result
    <3> QED BY <1>2, <3>1, <3>2, <3>3, <3>5, <3>7
  <2> QED BY <2>1, <2>2
<1>6. CASE rows' = Append(rows, Message(FALSE, m.from, None, None, "responded", {}, << >>))
  <2>1. Message(FALSE, m.from, None, None, "responded", {}, << >>).status = "responded"
    BY DEF Message
  <2> HIDE DEF Result
  <2> QED BY <1>2, <1>6, <2>1
<1>7. \/ UNCHANGED rows \/ Acknowledge(m) \/ Display(m)
      \/ rows' = Append(rows, Message(FALSE, m.from, None, None, "responded", {}, << >>))
  <2>1. m.kind \in {"app", "logonResponse", "connectionRequest", "session"}
    BY DEF Envelopes
  <2>2. CASE m.kind = "app"
    BY <2>2 DEF HandleIncoming
  <2>3. CASE m.kind # "app"
    BY <2>1, <2>3 DEF HandleIncoming
  <2> QED BY <2>2, <2>3
<1> QED BY <1>3, <1>4, <1>5, <1>6, <1>7

LEMMA SettledRows ==
    ASSUME TypeOK, NEW f \in Flights, NEW ok \in BOOLEAN, Settle(f, ok)
    PROVE  /\ RowsStay
           /\ \A i \in DOMAIN rows : i # f.row \/ f.kind \notin Intent \cup {"draft"}
                                     => rows'[i].status = rows[i].status
           /\ f.row \in DOMAIN rows /\ f.kind \in Intent
              => rows'[f.row].status \in {"open", "sent", "responded"}
           /\ f.row \in DOMAIN rows /\ f.kind = "draft"
              => rows'[f.row].status \in {"draft", "sent"}
           /\ \A i \in DOMAIN rows' \ DOMAIN rows : rows'[i].status = "sent"
<1> DEFINE Result ==
              /\ RowsStay
              /\ \A i \in DOMAIN rows : i # f.row \/ f.kind \notin Intent \cup {"draft"}
                                        => rows'[i].status = rows[i].status
              /\ f.row \in DOMAIN rows /\ f.kind \in Intent
                 => rows'[f.row].status \in {"open", "sent", "responded"}
              /\ f.row \in DOMAIN rows /\ f.kind = "draft"
                 => rows'[f.row].status \in {"draft", "sent"}
              /\ \A i \in DOMAIN rows' \ DOMAIN rows : rows'[i].status = "sent"
<1> SUFFICES Result
  OBVIOUS
<1> HIDE DEF Result
<1> rows \in Seq(DcduMessage)
  BY DEF TypeOK, ClientTypeOK
<1>1. \A i \in DOMAIN rows : rows[i] \in DcduMessage
  OBVIOUS
<1>0. ASSUME DOMAIN rows' = DOMAIN rows, f.kind \in Intent \cup {"draft"},
             \A i \in DOMAIN rows : i # f.row => rows'[i] = rows[i],
             f.row \in DOMAIN rows =>
                 /\ rows'[f.row].out = rows[f.row].out
                 /\ f.kind \in Intent => rows'[f.row].status \in {"open", "sent", "responded"}
                 /\ f.kind = "draft" => rows'[f.row].status \in {"draft", "sent"}
      PROVE  Result
  BY <1>0, Zenon DEF Result, RowsStay
<1>2. CASE \E state \in {"open", "sent", "responded"} :
              rows' = SetStatus(f.row, state) /\ f.kind \in Intent
  <2>1. PICK state \in {"open", "sent", "responded"} :
            rows' = SetStatus(f.row, state) /\ f.kind \in Intent
    BY <1>2
  <2>2. \A r \in DcduMessage : /\ [r EXCEPT !.status = state].out = r.out
                               /\ [r EXCEPT !.status = state].status = state
    BY DEF DcduMessage
  <2>3. /\ DOMAIN rows' = DOMAIN rows
        /\ \A i \in DOMAIN rows : i # f.row => rows'[i] = rows[i]
        /\ f.row \in DOMAIN rows => rows'[f.row] = [rows[f.row] EXCEPT !.status = state]
    BY <2>1 DEF SetStatus
  <2>4. f.kind # "draft"
    BY <2>1 DEF Intent
  <2>5. f.row \in DOMAIN rows => /\ rows'[f.row].out = rows[f.row].out
                                 /\ rows'[f.row].status = state
    BY <1>1, <2>2, <2>3, Zenon
  <2> QED BY <1>0, <2>1, <2>3, <2>4, <2>5
<1>3. CASE rows' = SetStatus(f.row, "draft") /\ f.kind = "draft"
  <2>1. \A r \in DcduMessage : /\ [r EXCEPT !.status = "draft"].out = r.out
                               /\ [r EXCEPT !.status = "draft"].status = "draft"
    BY DEF DcduMessage
  <2>2. /\ DOMAIN rows' = DOMAIN rows
        /\ \A i \in DOMAIN rows : i # f.row => rows'[i] = rows[i]
        /\ f.row \in DOMAIN rows => rows'[f.row] = [rows[f.row] EXCEPT !.status = "draft"]
    BY <1>3 DEF SetStatus
  <2>3. f.row \in DOMAIN rows => /\ rows'[f.row].out = rows[f.row].out
                                 /\ rows'[f.row].status = "draft"
    BY <1>1, <2>1, <2>2, Zenon
  <2>4. f.kind \notin Intent
    BY <1>3 DEF Intent
  <2> QED BY <1>0, <1>3, <2>2, <2>3, <2>4
<1>4. CASE rows' = DraftSent(f) /\ f.kind = "draft"
  <2>1. \A r \in DcduMessage : /\ [r EXCEPT !.status = "sent", !.min = f.min].out = r.out
                               /\ [r EXCEPT !.status = "sent", !.min = f.min].status = "sent"
    BY DEF DcduMessage
  <2>2. /\ DOMAIN rows' = DOMAIN rows
        /\ \A i \in DOMAIN rows : i # f.row => rows'[i] = rows[i]
        /\ f.row \in DOMAIN rows
           => rows'[f.row] = [rows[f.row] EXCEPT !.status = "sent", !.min = f.min]
    BY <1>4 DEF DraftSent
  <2>3. f.row \in DOMAIN rows => /\ rows'[f.row].out = rows[f.row].out
                                 /\ rows'[f.row].status = "sent"
    BY <1>1, <2>1, <2>2, Zenon
  <2>4. f.kind \notin Intent
    BY <1>4 DEF Intent
  <2> QED BY <1>0, <1>4, <2>2, <2>3, <2>4
<1>5. CASE rows' = LogonSent /\ f.kind = "logon"
  <2> DEFINE new == Message(TRUE, None, None, None, "sent", {}, << >>)
  <2>1. new.status = "sent"
    BY DEF Message
  <2>2. rows' = Append(rows, new)
    BY <1>5 DEF LogonSent
  <2> HIDE DEF new
  <2>3. /\ DOMAIN rows' = DOMAIN rows \cup {Len(rows) + 1}
        /\ \A i \in DOMAIN rows : rows'[i] = rows[i]
        /\ rows'[Len(rows) + 1] = new
    BY <2>2
  <2>4. f.kind \notin Intent /\ f.kind # "draft"
    BY <1>5 DEF Intent
  <2>5. \A i \in DOMAIN rows : rows'[i].out = rows[i].out /\ rows'[i].status = rows[i].status
    BY <2>3
  <2>6. \A i \in DOMAIN rows' \ DOMAIN rows : rows'[i].status = "sent"
    BY <2>1, <2>3
  <2>7. RowsStay
    BY <2>3, <2>5 DEF RowsStay
  <2> QED BY <2>4, <2>5, <2>6, <2>7, Zenon DEF Result
<1>6. CASE UNCHANGED rows /\ f.kind \notin Intent \cup {"draft"}
  BY <1>6 DEF RowsStay, Result
<1>7. f.kind \in Kinds
  BY DEF Flights, Kinds
<1>8. CASE f.kind \in Intent
  <2>1. \/ rows' = SetStatus(f.row, "open")
        \/ rows' = SetStatus(f.row, "sent")
        \/ rows' = SetStatus(f.row, "responded")
    BY <1>8 DEF Settle, AnswerSent, AnswerFailed, Intent
  <2> QED BY <1>2, <1>8, <2>1
<1>9. CASE f.kind = "draft"
  BY <1>3, <1>4, <1>9 DEF Settle, DraftFailed, Intent
<1>10. CASE f.kind \in {"online", "offline", "logon"}
  BY <1>5, <1>6, <1>10 DEF Settle, Intent
<1> QED BY <1>7, <1>8, <1>9, <1>10 DEF Kinds

LEMMA DraftKept ==
    ASSUME DraftInv, RowsStay, DraftsKnown,
           \A i \in DOMAIN rows' :
               rows'[i].status \in {"draft", "sending"} =>
                   \/ i \in DOMAIN rows /\ rows[i].out
                   \/ i \in DOMAIN rows /\ rows[i].status \in {"draft", "sending"}
                   \/ rows'[i].out
    PROVE  DraftInv'
<1>1. \A i \in DOMAIN rows' : rows'[i].status \in {"draft", "sending"} => rows'[i].out
  BY DEF DraftInv, RowsStay
<1>2. \A j \in DOMAIN pending' :
          pending'[j].kind = "draft" =>
              pending'[j].row \in DOMAIN rows /\ rows[pending'[j].row].out
  BY DEF DraftInv, DraftsKnown
<1>3. \A j \in DOMAIN pending' :
          pending'[j].kind = "draft" =>
              pending'[j].row \in DOMAIN rows' /\ rows'[pending'[j].row].out
  BY <1>2 DEF RowsStay
<1> QED BY <1>1, <1>3 DEF DraftInv

LEMMA AwaitedStays ==
    ASSUME Carried, NEW i, NEW kinds, AwaitedFor(i, kinds)
    PROVE  AwaitedFor(i, kinds)'
BY DEF Carried, AwaitedFor

LEMMA CarriedOver ==
    ASSUME pending \in Seq(Flights),
           \/ UNCHANGED pending
           \/ \E f \in Flights : pending' = Append(pending, f) /\ f.kind # "draft"
           \/ pending' = [k \in DOMAIN pending |-> [pending[k] EXCEPT !.lost = TRUE]]
    PROVE  Carried /\ DraftsKnown
<1>1. CASE UNCHANGED pending
  BY <1>1 DEF Carried, DraftsKnown
<1>2. ASSUME NEW f \in Flights, pending' = Append(pending, f), f.kind # "draft"
      PROVE  Carried /\ DraftsKnown
  <2>1. /\ DOMAIN pending' = DOMAIN pending \cup {Len(pending) + 1}
        /\ \A k \in DOMAIN pending : pending'[k] = pending[k]
        /\ pending'[Len(pending) + 1] = f
    BY <1>2, PendingAdded
  <2> QED BY <1>2, <2>1 DEF Carried, DraftsKnown
<1>3. CASE pending' = [k \in DOMAIN pending |-> [pending[k] EXCEPT !.lost = TRUE]]
  <2>1. \A f \in Flights : /\ [f EXCEPT !.lost = TRUE].row = f.row
                           /\ [f EXCEPT !.lost = TRUE].kind = f.kind
    BY DEF Flights
  <2>2. \A k \in DOMAIN pending : pending[k] \in Flights
    OBVIOUS
  <2>3. /\ DOMAIN pending' = DOMAIN pending
        /\ \A k \in DOMAIN pending : pending'[k] = [pending[k] EXCEPT !.lost = TRUE]
    BY <1>3
  <2>4. \A k \in DOMAIN pending : /\ pending'[k].row = pending[k].row
                                  /\ pending'[k].kind = pending[k].kind
    BY <2>1, <2>2, <2>3, Zenon
  <2> QED BY <2>3, <2>4 DEF Carried, DraftsKnown
<1> QED BY <1>1, <1>2, <1>3

(* What is checked of the rows.                                            *)
RowsInv == TransientIsAwaited /\ DraftInv

LEMMA SameRows ==
    ASSUME TypeOK, RowsInv, UNCHANGED rows, Carried, DraftsKnown
    PROVE  RowsInv' /\ StaysClosed
<1>1. RowsStay
  BY DEF RowsStay
<1>2. DraftInv'
  BY <1>1, DraftKept DEF RowsInv, DraftInv
<1>3. TransientIsAwaited'
  BY AwaitedStays DEF RowsInv, TransientIsAwaited
<1> QED BY <1>2, <1>3 DEF RowsInv, StaysClosed

LEMMA HeardStepRows ==
    ASSUME TypeOK, RowsInv, NEW m \in Envelopes, HandleIncoming(m)
    PROVE  RowsInv' /\ StaysClosed
<1>1. pending \in Seq(Flights) /\ UNCHANGED pending
  BY DEF HandleIncoming, TypeOK, ClientTypeOK
<1>2. Carried /\ DraftsKnown
  BY <1>1, CarriedOver
<1>3. /\ RowsStay
      /\ \A i \in DOMAIN rows : \/ rows'[i].status = rows[i].status
                                \/ rows'[i].status = "responded"
      /\ \A i \in DOMAIN rows' \ DOMAIN rows : rows'[i].status \in {"open", "responded"}
  BY HeardRows
<1>4. \A i \in DOMAIN rows' :
          rows'[i].status \in {"draft", "sending", "responding"}
          => i \in DOMAIN rows /\ rows[i].status = rows'[i].status
  BY <1>3
<1>5. DraftInv'
  BY <1>2, <1>3, <1>4, DraftKept DEF RowsInv
<1>6. TransientIsAwaited'
  BY <1>2, <1>4, AwaitedStays DEF RowsInv, TransientIsAwaited
<1>7. StaysClosed
  BY <1>3 DEF StaysClosed
<1> QED BY <1>5, <1>6, <1>7 DEF RowsInv

LEMMA SettledStepRows ==
    ASSUME TypeOK, RowsInv, Flushed \/ FlushFailed
    PROVE  RowsInv' /\ StaysClosed
<1>1. PICK p \in DOMAIN pending, ok \in BOOLEAN :
          Settle(pending[p], ok) /\ pending' = RemoveAt(pending, p)
  BY SettledAt
<1> DEFINE f == pending[p]
<1>2. pending \in Seq(Flights) /\ f \in Flights
  BY DEF TypeOK, ClientTypeOK
<1>3. /\ \A k \in DOMAIN pending' : /\ PlaceBefore(p, k) \in DOMAIN pending \ {p}
                                    /\ pending'[k] = pending[PlaceBefore(p, k)]
      /\ \A k \in DOMAIN pending \ {p} : \E j \in DOMAIN pending' : PlaceBefore(p, j) = k
  BY <1>1, <1>2, PendingRemoved
<1>4. /\ RowsStay
      /\ \A i \in DOMAIN rows : i # f.row \/ f.kind \notin Intent \cup {"draft"}
                                => rows'[i].status = rows[i].status
      /\ f.row \in DOMAIN rows /\ f.kind \in Intent
         => rows'[f.row].status \in {"open", "sent", "responded"}
      /\ f.row \in DOMAIN rows /\ f.kind = "draft"
         => rows'[f.row].status \in {"draft", "sent"}
      /\ \A i \in DOMAIN rows' \ DOMAIN rows : rows'[i].status = "sent"
  BY <1>1, <1>2, SettledRows
<1>5. \A i, kinds : AwaitedFor(i, kinds) /\ (f.row # i \/ f.kind \notin kinds)
                    => AwaitedFor(i, kinds)'
  <2> SUFFICES ASSUME NEW i, NEW kinds, AwaitedFor(i, kinds), f.row # i \/ f.kind \notin kinds
               PROVE  AwaitedFor(i, kinds)'
    OBVIOUS
  <2>1. PICK k \in DOMAIN pending : pending[k].row = i /\ pending[k].kind \in kinds
    BY DEF AwaitedFor
  <2>2. k # p
    BY <2>1
  <2>3. PICK j \in DOMAIN pending' : PlaceBefore(p, j) = k
    BY <1>3, <2>2
  <2>4. pending'[j] = pending[k]
    BY <1>3, <2>3
  <2> QED BY <2>1, <2>4 DEF AwaitedFor
<1>6. DraftsKnown
  BY <1>3 DEF DraftsKnown
<1>7. f.kind = "draft" => f.row \in DOMAIN rows /\ rows[f.row].out
  BY DEF RowsInv, DraftInv
<1> HIDE DEF f
<1>8. \A i \in DOMAIN rows' :
          rows'[i].status \in {"responding", "sending"} =>
              /\ i \in DOMAIN rows /\ rows[i].status = rows'[i].status
              /\ i # f.row \/ f.kind \notin Intent \cup {"draft"}
  BY <1>4
<1>9. \A i \in DOMAIN rows' :
          rows'[i].status = "draft" =>
              \/ i \in DOMAIN rows /\ rows[i].out
              \/ i \in DOMAIN rows /\ rows[i].status = "draft"
  BY <1>4, <1>7
<1>10. DraftInv'
  <2>1. \A i \in DOMAIN rows' :
            rows'[i].status \in {"draft", "sending"} =>
                \/ i \in DOMAIN rows /\ rows[i].out
                \/ i \in DOMAIN rows /\ rows[i].status \in {"draft", "sending"}
                \/ rows'[i].out
    BY <1>8, <1>9
  <2> QED BY <1>4, <1>6, <2>1, DraftKept DEF RowsInv
<1>11. TransientIsAwaited'
  BY <1>5, <1>8 DEF RowsInv, TransientIsAwaited
<1>12. StaysClosed
  <2> SUFFICES ASSUME NEW i \in DOMAIN rows, ~rows[i].out, rows'[i].status # rows[i].status
               PROVE  AwaitedFor(i, Intent)
    BY DEF StaysClosed
  <2>1. i = f.row /\ f.kind \in Intent
    BY <1>4, <1>7
  <2> QED BY <2>1 DEF AwaitedFor, f
<1> QED BY <1>10, <1>11, <1>12 DEF RowsInv

LEMMA MarkedRows ==
    ASSUME TypeOK, NEW i \in DOMAIN rows, NEW state, rows' = SetStatus(i, state)
    PROVE  /\ RowsStay /\ DOMAIN rows' = DOMAIN rows
           /\ rows'[i].status = state
           /\ \A j \in DOMAIN rows : j # i => rows'[j] = rows[j]
<1>1. \A j \in DOMAIN rows : rows[j] \in DcduMessage
  BY DEF TypeOK, ClientTypeOK
<1>2. \A r \in DcduMessage : /\ [r EXCEPT !.status = state].out = r.out
                             /\ [r EXCEPT !.status = state].status = state
  BY DEF DcduMessage
<1>3. /\ DOMAIN rows' = DOMAIN rows
      /\ \A j \in DOMAIN rows : j # i => rows'[j] = rows[j]
      /\ rows'[i] = [rows[i] EXCEPT !.status = state]
  BY DEF SetStatus
<1>4. rows'[i].out = rows[i].out /\ rows'[i].status = state
  BY <1>1, <1>2, <1>3, Zenon
<1> QED BY <1>3, <1>4, Zenon DEF RowsStay

LEMMA KeyStepRows ==
    ASSUME TypeOK, RowsInv, Dcdu
    PROVE  RowsInv' /\ StaysClosed
<1> /\ pending \in Seq(Flights) /\ rows \in Seq(DcduMessage) /\ closed \in BOOLEAN
    /\ mins \in [Destination -> MIN] /\ session \in Destination
  BY DEF TypeOK, ClientTypeOK
<1> DOMAIN rows \subseteq Nat
  OBVIOUS
<1>1. ASSUME NEW i \in DOMAIN rows, NEW kind \in Intent \cup {"draft"}, NEW min \in 0..MaxMin,
             pending' = Append(pending, Flight(kind, i, min)),
             \/ kind \in Intent /\ rows' = SetStatus(i, "responding")
                /\ rows[i].status # "responded"
             \/ kind = "draft" /\ rows' = SetStatus(i, "sending") /\ rows[i].out
      PROVE  RowsInv' /\ StaysClosed
  <2> DEFINE f == Flight(kind, i, min)
  <2>1. f \in Flights
    BY FlightType DEF Kinds
  <2>2. f.kind = kind /\ f.row = i
    BY DEF Flight
  <2> HIDE DEF f
  <2>3. /\ DOMAIN pending' = DOMAIN pending \cup {Len(pending) + 1}
        /\ \A k \in DOMAIN pending : pending'[k] = pending[k]
        /\ pending'[Len(pending) + 1] = f
    BY <1>1, <2>1, PendingAdded DEF f
  <2>4. Carried
    BY <2>3 DEF Carried
  <2>5. "draft" \notin Intent
    BY DEF Intent
  <2>6. DraftsKnown
    BY <1>1, <2>2, <2>3, <2>5 DEF DraftsKnown
  <2>7. \A kinds : kind \in kinds => AwaitedFor(i, kinds)'
    BY <2>2, <2>3 DEF AwaitedFor
  <2>8. /\ RowsStay /\ DOMAIN rows' = DOMAIN rows
        /\ \/ rows'[i].status = "responding" /\ kind \in Intent
           \/ rows'[i].status = "sending" /\ kind = "draft" /\ rows[i].out
        /\ \A j \in DOMAIN rows : j # i => rows'[j] = rows[j]
    BY <1>1, MarkedRows
  <2>9. DraftInv'
    <3>1. \A j \in DOMAIN rows' :
              rows'[j].status \in {"draft", "sending"} =>
                  \/ j \in DOMAIN rows /\ rows[j].out
                  \/ j \in DOMAIN rows /\ rows[j].status \in {"draft", "sending"}
                  \/ rows'[j].out
      BY <2>8
    <3> QED BY <2>6, <2>8, <3>1, DraftKept DEF RowsInv
  <2>10. TransientIsAwaited'
    <3> SUFFICES ASSUME NEW j \in DOMAIN rows'
                 PROVE  /\ rows'[j].status = "responding" => AwaitedFor(j, Intent)'
                        /\ rows'[j].status = "sending" => AwaitedFor(j, {"draft"})'
      BY DEF TransientIsAwaited
    <3>1. CASE j = i
      BY <2>7, <2>8, <3>1
    <3>2. CASE j # i
      BY <2>4, <2>8, <3>2, AwaitedStays DEF RowsInv, TransientIsAwaited
    <3> QED BY <3>1, <3>2
  <2>11. StaysClosed
    BY <1>1, <2>8 DEF StaysClosed
  <2> QED BY <2>9, <2>10, <2>11 DEF RowsInv
<1>2. CASE HandleResponse
  <2>1. PICK i \in DOMAIN rows : \E intent \in Answers(i) : SendResponse(i, intent)
    BY <1>2 DEF HandleResponse
  <2>2. PICK intent \in Answers(i) : SendResponse(i, intent)
    BY <2>1
  <2>3. EffectiveIntents(i) \in SUBSET Intent
    BY RowAt DEF EffectiveIntents
  <2>4. intent \in Intent /\ rows[i].status # "responded"
    BY <2>2, <2>3, KeysType DEF Answers
  <2>5. /\ pending' = Append(pending, Flight(intent, i, None))
        /\ rows' = SetStatus(i, "responding")
    BY <2>2 DEF SendResponse, PublishAndAwait
  <2> QED BY <1>1, <2>4, <2>5, Numbers
<1>3. CASE SendKey
  <2>1. PICK j \in DOMAIN rows : SendDraft(j) /\ rows[j].status \in {"draft", "sending"}
    BY <1>3 DEF SendKey, LinkedDraft, LinkedDrafts
  <2>2. mins[session] \in 0..MaxMin
    BY Numbers
  <2>3. rows[j].out
    BY <2>1 DEF RowsInv, DraftInv
  <2>4. /\ pending' = Append(pending, Flight("draft", j, mins[session]))
        /\ rows' = SetStatus(j, "sending")
    BY <2>1 DEF SendDraft, PublishAndAwait
  <2> QED BY <1>1, <2>2, <2>3, <2>4
<1>4. ASSUME NEW place, GoTo(place)
      PROVE  RowsInv' /\ StaysClosed
  <2>1. UNCHANGED <<rows, pending>>
    BY <1>4 DEF GoTo, clientVars, dialogue
  <2> QED BY <2>1, CarriedOver, SameRows
<1> QED BY <1>2, <1>3, <1>4 DEF Dcdu

LEMMA ComposedStepRows ==
    ASSUME TypeOK, RowsInv, Mcdu
    PROVE  RowsInv' /\ StaysClosed
<1> /\ pending \in Seq(Flights) /\ rows \in Seq(DcduMessage) /\ closed \in BOOLEAN
  BY DEF TypeOK, ClientTypeOK
<1>1. CASE (\E d \in Menu : AddElement(d)) \/ EraseInputs
  <2>1. UNCHANGED <<rows, pending>>
    BY <1>1 DEF AddElement, EraseInputs, clientVars, dialogue
  <2> QED BY <2>1, CarriedOver, SameRows
<1>2. ASSUME NEW s \in Station, Notify(s)
      PROVE  RowsInv' /\ StaysClosed
  <2>1. Flight("logon", 0, None) \in Flights
    BY Numbers, FlightType DEF Kinds
  <2>2. Flight("logon", 0, None).kind = "logon"
    BY DEF Flight
  <2>3. UNCHANGED rows /\ pending' = Append(pending, Flight("logon", 0, None))
    BY <1>2 DEF Notify, SendLogonRequest
  <2> QED BY <2>1, <2>2, <2>3, CarriedOver, SameRows
<1>3. CASE DoTransferToDcdu
  <2>1. PICK mrn : rows' = Append(rows, Message(TRUE, None, None, mrn, "draft", {}, elements))
    BY <1>3 DEF DoTransferToDcdu, TransferToDcdu
  <2> DEFINE new == Message(TRUE, None, None, mrn, "draft", {}, elements)
  <2>2. new.status = "draft" /\ new.out
    BY DEF Message
  <2>3. UNCHANGED pending /\ rows' = Append(rows, new)
    BY <1>3, <2>1 DEF DoTransferToDcdu, TransferToDcdu
  <2> HIDE DEF new
  <2>4. /\ DOMAIN rows' = DOMAIN rows \cup {Len(rows) + 1}
        /\ Len(rows) + 1 \notin DOMAIN rows
        /\ \A i \in DOMAIN rows : rows'[i] = rows[i]
        /\ rows'[Len(rows) + 1] = new
    BY <2>3
  <2>5. Carried /\ DraftsKnown
    BY <2>3, CarriedOver
  <2>6. RowsStay
    BY <2>4 DEF RowsStay
  <2>7. DraftInv'
    BY <2>2, <2>4, <2>5, <2>6, DraftKept DEF RowsInv
  <2>8. TransientIsAwaited'
    BY <2>2, <2>4, <2>5, AwaitedStays DEF RowsInv, TransientIsAwaited
  <2>9. StaysClosed
    BY <2>4 DEF StaysClosed
  <2> QED BY <2>7, <2>8, <2>9 DEF RowsInv
<1> QED BY <1>1, <1>2, <1>3 DEF Mcdu

LEMMA RowsStep ==
    ASSUME TypeOK, RowsInv, [Next]_vars
    PROVE  RowsInv' /\ StaysClosed
<1> /\ pending \in Seq(Flights) /\ closed \in BOOLEAN
  BY DEF TypeOK, ClientTypeOK
<1>1. ASSUME UNCHANGED rows,
             \/ UNCHANGED pending
             \/ \E f \in Flights : pending' = Append(pending, f) /\ f.kind # "draft"
             \/ pending' = [k \in DOMAIN pending |-> [pending[k] EXCEPT !.lost = TRUE]]
      PROVE  RowsInv' /\ StaysClosed
  BY <1>1, CarriedOver, SameRows
<1>2. CASE Connect \/ ConnectFails \/ Heartbeat \/ UNCHANGED vars
  <2>1. UNCHANGED <<rows, pending>>
    BY <1>2 DEF Connect, ConnectFails, Heartbeat, vars, clientVars, dialogue
  <2> QED BY <1>1, <2>1
<1>3. CASE Connected
  <2> DEFINE f == [Flight("online", 0, None) EXCEPT !.lost = FALSE]
  <2>1. f \in Flights /\ f.kind # "draft"
    BY Numbers DEF Flight, Flights
  <2>2. UNCHANGED rows /\ pending' = Append(pending, f)
    BY <1>3 DEF Connected
  <2> HIDE DEF f
  <2> QED BY <1>1, <2>1, <2>2
<1>4. CASE Disconnect
  <2>1. Flight("offline", 0, None) \in Flights
    BY Numbers, FlightType DEF Kinds
  <2>2. Flight("offline", 0, None).kind # "draft"
    BY DEF Flight
  <2>3. UNCHANGED rows /\ pending' = Append(pending, Flight("offline", 0, None))
    BY <1>4 DEF Disconnect
  <2> QED BY <1>1, <2>1, <2>2, <2>3
<1>5. CASE LeaveCockpit
  <2>1. rows' = << >> /\ pending' = << >>
    BY <1>5 DEF LeaveCockpit, Drained
  <2>2. DOMAIN rows' = {} /\ DOMAIN pending' = {}
    BY <2>1
  <2> QED BY <2>2 DEF RowsInv, TransientIsAwaited, DraftInv, StaysClosed
<1>6. CASE Flushed \/ FlushFailed
  BY <1>6, SettledStepRows
<1>7. ASSUME NEW forGood \in BOOLEAN, Break(forGood)
      PROVE  RowsInv' /\ StaysClosed
  <2>1. /\ UNCHANGED rows
        /\ pending' = [k \in DOMAIN pending |-> [pending[k] EXCEPT !.lost = TRUE]]
    BY <1>7 DEF Break
  <2> QED BY <1>1, <2>1
<1>8. CASE Traffic
  <2>1. ClientTypeOK
    BY DEF TypeOK
  <2>2. CASE ArriveApplication
    <3>1. PICK s, unit \in Station, body \in Uplinks4Me :
              \E mrn \in MinsSentTo(s) \cup {None} :
                  HandleIncoming(Application(s, mrn, body, unit))
      BY <2>2 DEF ArriveApplication, Deliver
    <3> QED BY <2>1, <3>1, ApplicationType, HeardStepRows
  <2>3. CASE ArriveMeta \/ ArriveSession
    <3>1. PICK s \in Destination, kind \in {"logonResponse", "connectionRequest", "session"} :
              HandleIncoming(Envelope(kind, s))
      BY <2>3 DEF ArriveMeta, ArriveSession, Deliver, Destination
    <3> QED BY <3>1, MetaType, HeardStepRows
  <2>4. ASSUME NEW c \in delivery.to, DeliverAgain(c)
        PROVE  RowsInv' /\ StaysClosed
    <3>1. delivery \in [msg : Envelopes, to : SUBSET subs]
      BY <2>1, <2>4 DEF ClientTypeOK, Nothing
    <3>2. delivery.msg \in Envelopes /\ HandleIncoming(delivery.msg)
      BY <2>4, <3>1 DEF DeliverAgain
    <3> QED BY <3>2, HeardStepRows
  <2> QED BY <1>8, <2>2, <2>3, <2>4, KeyStepRows, ComposedStepRows DEF Traffic
<1> QED BY <1>2, <1>3, <1>4, <1>5, <1>6, <1>7, <1>8, StepKinds

LEMMA RowsHold == Spec => []RowsInv
<1>1. Init => RowsInv
  BY DEF Init, ClientInit, RowsInv, TransientIsAwaited, DraftInv
<1>2. TypeOK /\ RowsInv /\ [Next]_vars => RowsInv'
  BY RowsStep
<1> QED BY <1>1, <1>2, TypeCorrect, PTL DEF Spec

(* No key is shut off for good: what is being answered or sent has a       *)
(* promise that will settle, however many messages arrive, are sent and    *)
(* are lost meanwhile (useOpenLink.ts: sendResponse, sendDraft).           *)
THEOREM TransientCorrect == Spec => []TransientIsAwaited
<1>1. RowsInv => TransientIsAwaited
  BY DEF RowsInv
<1> QED BY <1>1, RowsHold, PTL

(* An uplink that is closed is opened again by nothing but the settling of *)
(* its own answer (useOpenLink.ts: the row that sendDraft and sendResponse *)
(* set the status of).                                                     *)
THEOREM ClosedStaysClosed == Spec => ReopenedByItsAnswer
<1>1. TypeOK /\ RowsInv /\ [Next]_vars => [StaysClosed]_vars
  BY RowsStep
<1>2. [StaysClosed]_vars =>
          [\A i \in DOMAIN rows \cap DOMAIN rows' :
               ~rows[i].out /\ rows[i].status = "responded" /\ rows'[i].status # "responded"
               => AwaitedFor(i, Intent)]_vars
  BY DEF StaysClosed
<1> QED BY <1>1, <1>2, TypeCorrect, RowsHold, PTL DEF Spec, ReopenedByItsAnswer
-----------------------------------------------------------------------------
(* One answer to an uplink. *)

(* An answer is awaited for an uplink that is being answered, or that the  *)
(* station closed meanwhile, and for one uplink one is.                    *)
AwaitInv ==
    /\ \A k \in DOMAIN pending :
          pending[k].kind \in Intent =>
              /\ pending[k].row \in DOMAIN rows
              /\ ~rows[pending[k].row].out
              /\ rows[pending[k].row].status \in {"responding", "responded"}
              /\ (faults = 0 /\ leaving # "drain") => ~pending[k].lost
    /\ \A j, k \in DOMAIN pending :
          /\ pending[j].kind \in Intent /\ pending[k].kind \in Intent
          /\ pending[j].row = pending[k].row
          => j = k

(* What was answered is awaited, or shows on the uplink; and after another *)
(* answer STANDBY is not awaited.                                          *)
Given(r) ==
    /\ r.row \in DOMAIN rows
    /\ ~rows[r.row].out
    /\ \/ AwaitedFor(r.row, Intent)
       \/ rows[r.row].status = "responded"
       \/ r.what = "Standby" /\ rows[r.row].status = "sent"
    /\ r.what # "Standby" => ~AwaitedFor(r.row, {"Standby"})

SentInv ==
    faults = 0 /\ leaving # "drain" =>
        \A k \in DOMAIN sent : sent[k].what \in Intent => Given(sent[k])

(* The body of AnsweredOnce.                                               *)
OneEach ==
    \A j, k \in DOMAIN sent :
        j < k /\ sent[j].row = sent[k].row /\ {sent[j].what, sent[k].what} \subseteq Intent
        => sent[j].what = "Standby" /\ sent[k].what # "Standby"

AnswersInv == AwaitInv /\ SentInv /\ AnsweredOnce

(* No key answers what the uplink is not offered.                          *)
LEMMA KeysAmong ==
    ASSUME NEW S \in SUBSET Intent
    PROVE  Keys(ArrangeResponses(S)) \subseteq S
<1> DEFINE key == S \cup {""}
           grid == [topLeft : key, topRight : key, botLeft : key, botRight : key]
<1>1. CASE S = {}
  <2>1. ArrangeResponses(S) \in grid
    BY <1>1, FS_EmptySet DEF ArrangeResponses
  <2> QED BY <2>1 DEF Keys
<1>2. CASE S # {}
  <2>1. (CHOOSE i \in S : TRUE) \in key
    BY <1>2
  <2>2. ArrangeResponses(S) \in grid
    BY <2>1 DEF ArrangeResponses
  <2> QED BY <2>2 DEF Keys
<1> QED BY <1>1, <1>2

(* The answer that is offered next.                                        *)
LEMMA OfferedAnswers ==
    ASSUME TypeOK, NEW i \in DOMAIN rows, NEW intent \in Answers(i)
    PROVE  /\ intent \in Intent /\ ~rows[i].out
           /\ rows[i].status \in {"open", "sent"}
           /\ rows[i].status = "sent" => intent # "Standby"
<1>1. EffectiveIntents(i) \in SUBSET Intent
  BY RowAt DEF EffectiveIntents, TypeOK, ClientTypeOK
<1>2. ~rows[i].out /\ rows[i].status \in {"open", "sent"}
      /\ intent \in Keys(ArrangeResponses(EffectiveIntents(i)))
  BY DEF Answers
<1>3. intent \in EffectiveIntents(i)
  BY <1>1, <1>2, KeysAmong
<1> QED BY <1>1, <1>2, <1>3 DEF EffectiveIntents

(* What was answered stays answered, as long as uplinks that are answered  *)
(* are only closed and no answer is sent or settled.                       *)
LEMMA AnswersKept ==
    ASSUME AnswersInv, RowsStay, Carried,
           \A i \in DOMAIN rows :
               ~rows[i].out => \/ rows'[i].status = rows[i].status
                               \/ rows'[i].status = "responded",
           \A k \in DOMAIN pending' :
               pending'[k].kind \in Intent =>
                   /\ k \in DOMAIN pending
                   /\ pending'[k].row = pending[k].row /\ pending'[k].kind = pending[k].kind
                   /\ faults' = 0 => pending'[k].lost = pending[k].lost,
           \A k \in DOMAIN sent' :
               sent'[k].what \in Intent => k \in DOMAIN sent /\ sent'[k] = sent[k],
           faults' = 0 => faults = 0,
           faults' = 0 /\ leaving' # "drain" => leaving # "drain"
    PROVE  AnswersInv'
<1>1. AwaitInv'
  <2>1. ASSUME NEW k \in DOMAIN pending', pending'[k].kind \in Intent
        PROVE  /\ pending'[k].row \in DOMAIN rows'
               /\ ~rows'[pending'[k].row].out
               /\ rows'[pending'[k].row].status \in {"responding", "responded"}
               /\ (faults' = 0 /\ leaving' # "drain") => ~pending'[k].lost
    <3> DEFINE i == pending[k].row
    <3>1. /\ k \in DOMAIN pending /\ pending[k].kind \in Intent /\ pending'[k].row = i
          /\ faults' = 0 => pending'[k].lost = pending[k].lost
      BY <2>1
    <3>2. /\ i \in DOMAIN rows /\ ~rows[i].out /\ rows[i].status \in {"responding", "responded"}
          /\ (faults = 0 /\ leaving # "drain") => ~pending[k].lost
      BY <3>1 DEF AnswersInv, AwaitInv
    <3>3. /\ i \in DOMAIN rows' /\ ~rows'[i].out
          /\ rows'[i].status \in {"responding", "responded"}
      BY <3>2 DEF RowsStay
    <3> HIDE DEF i
    <3> QED BY <3>1, <3>2, <3>3
  <2>2. ASSUME NEW j \in DOMAIN pending', NEW k \in DOMAIN pending',
               pending'[j].kind \in Intent, pending'[k].kind \in Intent,
               pending'[j].row = pending'[k].row
        PROVE  j = k
    BY <2>2 DEF AnswersInv, AwaitInv
  <2> QED BY <2>1, <2>2 DEF AwaitInv
<1>2. SentInv'
  <2> SUFFICES ASSUME faults' = 0, leaving' # "drain", NEW k \in DOMAIN sent',
                      sent'[k].what \in Intent
               PROVE  Given(sent[k])'
    BY DEF SentInv
  <2> DEFINE i == sent[k].row
  <2>1. k \in DOMAIN sent /\ sent'[k] = sent[k] /\ sent[k].what \in Intent
    OBVIOUS
  <2>2. Given(sent[k])
    BY <2>1 DEF AnswersInv, SentInv
  <2>3. i \in DOMAIN rows' /\ ~rows'[i].out
        /\ (rows'[i].status = rows[i].status \/ rows'[i].status = "responded")
    BY <2>2 DEF Given, RowsStay
  <2>4. AwaitedFor(i, Intent) => \E j \in DOMAIN pending' : pending'[j].row = i
                                                       /\ pending'[j].kind \in Intent
    BY DEF AwaitedFor, Carried
  <2>5. (\E j \in DOMAIN pending' : pending'[j].row = i /\ pending'[j].kind = "Standby")
        => AwaitedFor(i, {"Standby"})
    BY DEF AwaitedFor, Intent
  <2> HIDE DEF i
  <2>6. /\ \/ \E j \in DOMAIN pending' : pending'[j].row = i /\ pending'[j].kind \in Intent
           \/ rows'[i].status = "responded"
           \/ sent[k].what = "Standby" /\ rows'[i].status = "sent"
        /\ sent[k].what # "Standby" =>
              ~\E j \in DOMAIN pending' : pending'[j].row = i /\ pending'[j].kind \in {"Standby"}
    BY <2>2, <2>3, <2>4, <2>5 DEF Given, i
  <2> QED BY <2>1, <2>3, <2>6 DEF Given, AwaitedFor, i
<1>3. AnsweredOnce'
  <2>1. faults' = 0 => OneEach
    BY DEF AnswersInv, AnsweredOnce, OneEach
  <2>2. OneEach => OneEach'
    BY DEF OneEach
  <2> QED BY <2>1, <2>2 DEF AnsweredOnce, OneEach
<1> QED BY <1>1, <1>2, <1>3 DEF AnswersInv

(* Nothing about answers changes where rows, promises and what was sent    *)
(* stay, but for a promise of another kind.                                *)
LEMMA AnswersUntouched ==
    ASSUME TypeOK, AnswersInv, UNCHANGED <<rows, sent>>,
           \/ UNCHANGED pending
           \/ \E f \in Flights : pending' = Append(pending, f) /\ f.kind \notin Intent,
           faults' = 0 => faults = 0,
           faults' = 0 /\ leaving' # "drain" => leaving # "drain"
    PROVE  AnswersInv'
<1> pending \in Seq(Flights)
  BY DEF TypeOK, ClientTypeOK
<1>1. Carried /\ \A k \in DOMAIN pending' :
          pending'[k].kind \in Intent => k \in DOMAIN pending /\ pending'[k] = pending[k]
  <2>1. CASE UNCHANGED pending
    BY <2>1 DEF Carried
  <2>2. ASSUME NEW f \in Flights, pending' = Append(pending, f), f.kind \notin Intent
        PROVE  Carried /\ \A k \in DOMAIN pending' :
            pending'[k].kind \in Intent => k \in DOMAIN pending /\ pending'[k] = pending[k]
    BY <2>2, PendingAdded DEF Carried
  <2> QED BY <2>1, <2>2
<1>2. RowsStay
  BY DEF RowsStay
<1> QED BY <1>1, <1>2, AnswersKept

LEMMA HeardStepAnswers ==
    ASSUME TypeOK, AnswersInv, NEW m \in Envelopes, HandleIncoming(m)
    PROVE  AnswersInv'
<1> sent \in Seq(Published)
  BY DEF TypeOK, ClientTypeOK
<1>1. UNCHANGED <<pending, faults, leaving>>
  BY DEF HandleIncoming, link
<1>2. RowsStay /\ \A i \in DOMAIN rows : \/ rows'[i].status = rows[i].status
                                         \/ rows'[i].status = "responded"
  BY HeardRows
<1>3. \/ UNCHANGED sent
      \/ \E r : r.what = "ack" /\ sent' = Append(sent, r)
  <2>1. m.kind \in {"app", "logonResponse", "connectionRequest", "session"}
    BY DEF Envelopes
  <2>2. UNCHANGED sent \/ Reply(m)
    <3>1. CASE m.kind = "app"
      BY <3>1 DEF HandleIncoming
    <3>2. CASE m.kind # "app"
      BY <2>1, <3>2 DEF HandleIncoming
    <3> QED BY <3>1, <3>2
  <2>3. Reply(m) => UNCHANGED sent
                    \/ sent' = Append(sent, Record(m.from, m.min, 0, "ack"))
    BY DEF Reply
  <2>4. Record(m.from, m.min, 0, "ack").what = "ack"
    BY DEF Record
  <2> QED BY <2>2, <2>3, <2>4
<1>4. \A k \in DOMAIN sent' : sent'[k].what \in Intent => k \in DOMAIN sent /\ sent'[k] = sent[k]
  <2>1. ASSUME NEW r, r.what = "ack", sent' = Append(sent, r)
        PROVE  \A k \in DOMAIN sent' :
                   sent'[k].what \in Intent => k \in DOMAIN sent /\ sent'[k] = sent[k]
    BY <2>1 DEF Intent
  <2> QED BY <1>3, <2>1
<1>5. Carried
  BY <1>1 DEF Carried
<1> QED BY <1>1, <1>2, <1>4, <1>5, AnswersKept

(* What settles was sent on the connection that is open, if none failed;   *)
(* its status on the uplink is what the next answer goes by.               *)
LEMMA SettledAnswer ==
    ASSUME TypeOK, NEW f \in Flights, Settle(f, TRUE), f.kind \in Intent,
           f.row \in DOMAIN rows
    PROVE  rows'[f.row].status = IF f.kind = "Standby" THEN "sent" ELSE "responded"
<1>1. rows' = SetStatus(f.row, IF f.kind = "Standby" THEN "sent" ELSE "responded")
  BY DEF Settle, AnswerSent, Intent
<1> QED BY <1>1, MarkedRows

LEMMA SettledStepAnswers ==
    ASSUME TypeOK, LinkInv, HeardInv, RowsInv, AnswersInv, Flushed \/ FlushFailed
    PROVE  AnswersInv'
<1>1. PICK p \in DOMAIN pending, ok \in BOOLEAN :
          /\ Settle(pending[p], ok) /\ pending' = RemoveAt(pending, p)
          /\ pending[p].lost <=> ~ok
  BY SettledAt
<1> DEFINE f == pending[p]
<1>2. pending \in Seq(Flights) /\ f \in Flights
  BY DEF TypeOK, ClientTypeOK
<1>3. /\ \A k \in DOMAIN pending' : /\ PlaceBefore(p, k) \in DOMAIN pending \ {p}
                                    /\ pending'[k] = pending[PlaceBefore(p, k)]
      /\ \A j, k \in DOMAIN pending' : PlaceBefore(p, j) = PlaceBefore(p, k) => j = k
      /\ \A k \in DOMAIN pending \ {p} : \E j \in DOMAIN pending' : PlaceBefore(p, j) = k
  BY <1>1, <1>2, PendingRemoved
<1>4. /\ RowsStay
      /\ \A i \in DOMAIN rows : i # f.row \/ f.kind \notin Intent \cup {"draft"}
                                => rows'[i].status = rows[i].status
  BY <1>1, <1>2, SettledRows
<1>5. UNCHANGED <<sent, faults>>
  BY <1>1 DEF Settle, environment
<1>6. faults = 0 /\ leaving' # "drain" => leaving # "drain"
  BY <1>1 DEF Settle, Leave, LinkInv
<1>7. f.kind = "draft" => f.row \in DOMAIN rows /\ rows[f.row].out
  BY DEF RowsInv, DraftInv
<1>8. f.kind \in Intent =>
          /\ f.row \in DOMAIN rows
          /\ (faults = 0 /\ leaving # "drain") => ~f.lost
          /\ \A k \in DOMAIN pending : pending[k].kind \in Intent /\ pending[k].row = f.row
                                       => k = p
  BY DEF AnswersInv, AwaitInv
<1>9. f.kind \in Intent /\ faults = 0 /\ leaving # "drain" =>
          rows'[f.row].status = IF f.kind = "Standby" THEN "sent" ELSE "responded"
  <2> SUFFICES ASSUME f.kind \in Intent, faults = 0, leaving # "drain"
               PROVE  rows'[f.row].status = IF f.kind = "Standby" THEN "sent" ELSE "responded"
    OBVIOUS
  <2>1. f.row \in DOMAIN rows /\ ok = TRUE
    BY <1>1, <1>8
  <2>2. Settle(f, TRUE)
    BY <1>1, <2>1
  <2> HIDE DEF f
  <2> QED BY <1>2, <2>1, <2>2, SettledAnswer
<1>10. Awaits(f.kind) /\ f = pending[p]
  BY DEF Awaits
<1> HIDE DEF f
<1>11. \A i \in DOMAIN rows : ~rows[i].out /\ (f.kind \notin Intent \/ i # f.row)
                              => rows'[i].status = rows[i].status
  BY <1>4, <1>7
<1>12. AwaitInv'
  <2>1. ASSUME NEW k \in DOMAIN pending', pending'[k].kind \in Intent
        PROVE  /\ pending'[k].row \in DOMAIN rows'
               /\ ~rows'[pending'[k].row].out
               /\ rows'[pending'[k].row].status \in {"responding", "responded"}
               /\ (faults' = 0 /\ leaving' # "drain") => ~pending'[k].lost
    <3>1. PICK j \in DOMAIN pending \ {p} : pending'[k] = pending[j]
      BY <1>3
    <3>2. /\ pending[j].row \in DOMAIN rows /\ ~rows[pending[j].row].out
          /\ rows[pending[j].row].status \in {"responding", "responded"}
          /\ (faults = 0 /\ leaving # "drain") => ~pending[j].lost
      BY <2>1, <3>1 DEF AnswersInv, AwaitInv
    <3>3. f.kind \notin Intent \/ pending[j].row # f.row
      BY <1>8, <2>1, <3>1
    <3>4. rows'[pending[j].row].status = rows[pending[j].row].status
      BY <1>11, <3>2, <3>3
    <3>5. pending[j].row \in DOMAIN rows' /\ ~rows'[pending[j].row].out
      BY <1>4, <3>2 DEF RowsStay
    <3> QED BY <1>5, <1>6, <3>1, <3>2, <3>4, <3>5
  <2>2. ASSUME NEW j \in DOMAIN pending', NEW k \in DOMAIN pending',
               pending'[j].kind \in Intent, pending'[k].kind \in Intent,
               pending'[j].row = pending'[k].row
        PROVE  j = k
    <3>1. /\ PlaceBefore(p, j) \in DOMAIN pending /\ PlaceBefore(p, k) \in DOMAIN pending
          /\ pending'[j] = pending[PlaceBefore(p, j)] /\ pending'[k] = pending[PlaceBefore(p, k)]
      BY <1>3
    <3>2. PlaceBefore(p, j) = PlaceBefore(p, k)
      BY <2>2, <3>1 DEF AnswersInv, AwaitInv
    <3> QED BY <1>3, <3>2
  <2> QED BY <2>1, <2>2 DEF AwaitInv
<1>13. SentInv'
  <2> SUFFICES ASSUME faults' = 0, leaving' # "drain", NEW k \in DOMAIN sent,
                      sent[k].what \in Intent
               PROVE  Given(sent[k])'
    BY <1>5 DEF SentInv
  <2> DEFINE i == sent[k].row
  <2>1. faults = 0 /\ leaving # "drain" /\ sent' = sent
    BY <1>5, <1>6
  <2>2. Given(sent[k])
    BY <2>1 DEF AnswersInv, SentInv
  <2>3. i \in DOMAIN rows /\ ~rows[i].out /\ i \in DOMAIN rows' /\ ~rows'[i].out
    BY <1>4, <2>2 DEF Given, RowsStay
  <2>4. ASSUME NEW kinds, NEW j \in DOMAIN pending', pending'[j].row = i, pending'[j].kind \in kinds
        PROVE  AwaitedFor(i, kinds)
    BY <1>3, <2>4 DEF AwaitedFor
  <2>5. ~AwaitedFor(i, {"Standby"}) =>
            ~\E j \in DOMAIN pending' : pending'[j].row = i /\ pending'[j].kind \in {"Standby"}
    BY <2>4
  <2>6. \/ \E j \in DOMAIN pending' : pending'[j].row = i /\ pending'[j].kind \in Intent
        \/ rows'[i].status = "responded"
        \/ sent[k].what = "Standby" /\ rows'[i].status = "sent"
    <3>1. CASE f.kind \in Intent /\ f.row = i
      <4>1. rows'[i].status = IF f.kind = "Standby" THEN "sent" ELSE "responded"
        BY <1>9, <2>1, <3>1
      <4>2. f.kind = "Standby" => AwaitedFor(i, {"Standby"})
        BY <1>10, <3>1 DEF AwaitedFor
      <4>3. sent[k].what # "Standby" => f.kind # "Standby"
        BY <2>2, <4>2 DEF Given
      <4> QED BY <4>1, <4>3
    <3>2. CASE f.kind \notin Intent \/ f.row # i
      <4>1. rows'[i].status = rows[i].status
        BY <1>11, <2>3, <3>2
      <4>2. ASSUME NEW j \in DOMAIN pending, pending[j].row = i, pending[j].kind \in Intent
            PROVE  \E n \in DOMAIN pending' : pending'[n].row = i /\ pending'[n].kind \in Intent
        <5>1. j # p
          BY <1>10, <3>2, <4>2
        <5>2. PICK n \in DOMAIN pending' : PlaceBefore(p, n) = j
          BY <1>3, <5>1
        <5> QED BY <1>3, <4>2, <5>2
      <4> QED BY <2>2, <4>1, <4>2 DEF Given, AwaitedFor
    <3> QED BY <3>1, <3>2
  <2>7. sent[k].what # "Standby" =>
            ~\E j \in DOMAIN pending' : pending'[j].row = i /\ pending'[j].kind \in {"Standby"}
    BY <2>2, <2>5 DEF Given
  <2> HIDE DEF i
  <2> QED BY <2>1, <2>3, <2>6, <2>7 DEF Given, AwaitedFor, i
<1>14. AnsweredOnce'
  BY <1>5 DEF AnswersInv, AnsweredOnce
<1> QED BY <1>12, <1>13, <1>14 DEF AnswersInv

(* The screen offers what was not answered yet.                            *)
LEMMA AnswerStep ==
    ASSUME TypeOK, HeardInv, AnswersInv,
           NEW i \in DOMAIN rows, NEW intent \in Answers(i), SendResponse(i, intent)
    PROVE  AnswersInv'
<1> DEFINE f == Flight(intent, i, None)
           r == Record(rows[i].from, rows[i].min, i, intent)
<1>1. /\ pending \in Seq(Flights) /\ sent \in Seq(Published) /\ closed \in BOOLEAN
      /\ i \in Nat
  BY DEF TypeOK, ClientTypeOK
<1>2. /\ intent \in Intent /\ ~rows[i].out /\ rows[i].status \in {"open", "sent"}
      /\ rows[i].status = "sent" => intent # "Standby"
  BY OfferedAnswers
<1>3. f \in Flights /\ f.kind = intent /\ f.row = i
      /\ f.lost = (closed \/ leaving = "drain")
  <2>1. f \in Flights
    BY <1>1, <1>2, FlightType, Numbers DEF Kinds
  <2> QED BY <2>1 DEF Flight
<1>4. r.what = intent /\ r.row = i
  BY DEF Record
<1>5. /\ rows' = SetStatus(i, "responding") /\ UNCHANGED <<faults, leaving>>
      /\ pending' = Append(pending, f)
      /\ sent' = IF f.lost THEN sent ELSE Append(sent, r)
  BY DEF SendResponse, PublishAndAwait, environment, link
<1> HIDE DEF f, r
<1>6. /\ RowsStay /\ DOMAIN rows' = DOMAIN rows /\ rows'[i].status = "responding"
      /\ \A j \in DOMAIN rows : j # i => rows'[j] = rows[j]
  BY <1>5, MarkedRows
<1>7. /\ DOMAIN pending' = DOMAIN pending \cup {Len(pending) + 1}
      /\ \A k \in DOMAIN pending : pending'[k] = pending[k]
      /\ pending'[Len(pending) + 1] = f
  BY <1>1, <1>3, <1>5, PendingAdded
<1>8. \A k \in DOMAIN pending : pending[k].kind \in Intent => pending[k].row # i
  BY <1>2 DEF AnswersInv, AwaitInv
<1>9. ~rows'[i].out /\ i \in DOMAIN rows'
  BY <1>2, <1>6 DEF RowsStay
<1>10. faults = 0 /\ leaving # "drain" => ~f.lost
  BY <1>3 DEF HeardInv
<1>11. AwaitInv'
  <2>1. ASSUME NEW k \in DOMAIN pending', pending'[k].kind \in Intent
        PROVE  /\ pending'[k].row \in DOMAIN rows'
               /\ ~rows'[pending'[k].row].out
               /\ rows'[pending'[k].row].status \in {"responding", "responded"}
               /\ (faults' = 0 /\ leaving' # "drain") => ~pending'[k].lost
    <3>1. CASE k \in DOMAIN pending
      <4>1. pending'[k] = pending[k] /\ pending[k].row # i
        BY <1>7, <1>8, <2>1, <3>1
      <4>2. /\ pending[k].row \in DOMAIN rows /\ ~rows[pending[k].row].out
            /\ rows[pending[k].row].status \in {"responding", "responded"}
            /\ (faults = 0 /\ leaving # "drain") => ~pending[k].lost
        BY <2>1, <3>1, <4>1 DEF AnswersInv, AwaitInv
      <4> QED BY <1>5, <1>6, <4>1, <4>2
    <3>2. CASE k \notin DOMAIN pending
      <4>1. pending'[k] = f
        BY <1>7, <3>2
      <4> QED BY <1>3, <1>5, <1>6, <1>9, <1>10, <4>1
    <3> QED BY <3>1, <3>2
  <2>2. ASSUME NEW j \in DOMAIN pending', NEW k \in DOMAIN pending',
               pending'[j].kind \in Intent, pending'[k].kind \in Intent,
               pending'[j].row = pending'[k].row
        PROVE  j = k
    <3>1. CASE j \in DOMAIN pending /\ k \in DOMAIN pending
      BY <1>7, <2>2, <3>1 DEF AnswersInv, AwaitInv
    <3>2. CASE j \notin DOMAIN pending \/ k \notin DOMAIN pending
      BY <1>3, <1>7, <1>8, <2>2, <3>2
    <3> QED BY <3>1, <3>2
  <2> QED BY <2>1, <2>2 DEF AwaitInv
(* If the uplink was answered before, it was by STANDBY.                   *)
<1>12. faults = 0 /\ leaving # "drain" =>
           \A k \in DOMAIN sent : sent[k].what \in Intent /\ sent[k].row = i
                                  => sent[k].what = "Standby" /\ intent # "Standby"
  <2> SUFFICES ASSUME faults = 0, leaving # "drain", NEW k \in DOMAIN sent,
                      sent[k].what \in Intent, sent[k].row = i
               PROVE  sent[k].what = "Standby" /\ intent # "Standby"
    OBVIOUS
  <2>1. Given(sent[k])
    BY DEF AnswersInv, SentInv
  <2>2. ~AwaitedFor(i, Intent)
    BY <1>8 DEF AwaitedFor
  <2> QED BY <1>2, <2>1, <2>2 DEF Given
<1>13. \A k \in DOMAIN sent' : \/ k \in DOMAIN sent /\ sent'[k] = sent[k]
                               \/ k = Len(sent) + 1 /\ sent'[k] = r /\ ~f.lost
  BY <1>1, <1>5
<1>14. SentInv'
  <2> SUFFICES ASSUME faults' = 0, leaving' # "drain", NEW k \in DOMAIN sent',
                      sent'[k].what \in Intent
               PROVE  Given(sent[k])'
    BY DEF SentInv
  <2>1. faults = 0 /\ leaving # "drain"
    BY <1>5
  <2>2. \E j \in DOMAIN pending' : pending'[j].row = i /\ pending'[j].kind \in Intent
    BY <1>2, <1>3, <1>7
  <2>3. (\E j \in DOMAIN pending' : pending'[j].row = i /\ pending'[j].kind \in {"Standby"})
        => intent = "Standby"
    <3>1. "Standby" \in Intent
      BY DEF Intent
    <3> QED BY <1>3, <1>7, <1>8, <3>1
  <2>4. CASE sent'[k].row = i
    <3>1. sent'[k].what # "Standby" => intent # "Standby"
      BY <1>4, <1>12, <1>13, <2>1, <2>4
    <3> QED BY <1>9, <2>2, <2>3, <2>4, <3>1 DEF Given, AwaitedFor
  <2>5. CASE sent'[k].row # i
    <3>1. k \in DOMAIN sent /\ sent'[k] = sent[k]
      BY <1>4, <1>13, <2>5
    <3> DEFINE u == sent[k].row
    <3>2. Given(sent[k])
      BY <2>1, <3>1 DEF AnswersInv, SentInv
    <3>3. u \in DOMAIN rows' /\ ~rows'[u].out /\ rows'[u].status = rows[u].status
      BY <1>6, <2>5, <3>1, <3>2 DEF Given
    <3>4. AwaitedFor(u, Intent) =>
              \E j \in DOMAIN pending' : pending'[j].row = u /\ pending'[j].kind \in Intent
      BY <1>7 DEF AwaitedFor
    <3>5. (\E j \in DOMAIN pending' : pending'[j].row = u /\ pending'[j].kind \in {"Standby"})
          => AwaitedFor(u, {"Standby"})
      BY <1>3, <1>7, <2>5, <3>1 DEF AwaitedFor
    <3> HIDE DEF u
    <3>6. /\ \/ \E j \in DOMAIN pending' : pending'[j].row = u /\ pending'[j].kind \in Intent
             \/ rows'[u].status = "responded"
             \/ sent[k].what = "Standby" /\ rows'[u].status = "sent"
          /\ sent[k].what # "Standby" =>
                ~\E j \in DOMAIN pending' : pending'[j].row = u /\ pending'[j].kind \in {"Standby"}
      BY <3>2, <3>3, <3>4, <3>5 DEF Given, u
    <3> QED BY <3>1, <3>3, <3>6 DEF Given, AwaitedFor, u
  <2> QED BY <2>4, <2>5
<1>15. AnsweredOnce'
  <2> SUFFICES ASSUME faults' = 0, NEW j \in DOMAIN sent', NEW k \in DOMAIN sent', j < k,
                      sent'[j].row = sent'[k].row,
                      sent'[j].what \in Intent, sent'[k].what \in Intent
               PROVE  sent'[j].what = "Standby" /\ sent'[k].what # "Standby"
    BY DEF AnsweredOnce
  <2>1. faults = 0
    BY <1>5
  <2>2. CASE k \in DOMAIN sent
    <3>1. j \in DOMAIN sent
      <4>1. k \in 1..Len(sent) /\ Len(sent) \in Nat /\ DOMAIN sent = 1..Len(sent)
        BY <1>1, <2>2
      <4>2. j \in DOMAIN sent \/ j = Len(sent) + 1
        BY <1>13
      <4> QED BY <4>1, <4>2
    <3>2. sent'[j] = sent[j] /\ sent'[k] = sent[k]
      BY <1>1, <1>13, <2>2, <3>1
    <3> QED BY <2>1, <2>2, <3>1, <3>2 DEF AnswersInv, AnsweredOnce
  <2>3. CASE k \notin DOMAIN sent
    <3>1. k = Len(sent) + 1 /\ sent'[k] = r /\ ~f.lost
      BY <1>13, <2>3
    <3>2. j \in DOMAIN sent /\ sent'[j] = sent[j]
      BY <1>1, <1>13, <3>1
    <3>3. leaving # "drain"
      BY <1>3, <3>1
    <3> QED BY <1>4, <1>12, <2>1, <3>1, <3>2, <3>3
  <2> QED BY <2>2, <2>3
<1> QED BY <1>11, <1>14, <1>15 DEF AnswersInv

LEMMA KeyStepAnswers ==
    ASSUME TypeOK, HeardInv, RowsInv, AnswersInv, Dcdu
    PROVE  AnswersInv'
<1> /\ pending \in Seq(Flights) /\ sent \in Seq(Published) /\ closed \in BOOLEAN
    /\ mins \in [Destination -> MIN] /\ session \in Destination
  BY DEF TypeOK, ClientTypeOK
<1>1. CASE HandleResponse
  BY <1>1, AnswerStep DEF HandleResponse
<1>2. CASE SendKey
  <2>1. PICK i \in DOMAIN rows : SendDraft(i) /\ rows[i].status \in {"draft", "sending"}
    BY <1>2 DEF SendKey, LinkedDraft, LinkedDrafts
  <2> DEFINE f == Flight("draft", i, mins[session])
             r == Record(session, rows[i].mrn, i, "draft")
  <2>2. rows[i].out
    BY <2>1 DEF RowsInv, DraftInv
  <2>3. f \in Flights /\ f.kind = "draft"
    <3>1. mins[session] \in 0..MaxMin /\ i \in Nat
      <4>1. i \in Nat
        BY DEF TypeOK, ClientTypeOK
      <4> QED BY <4>1, Numbers
    <3>2. f \in Flights
      BY <3>1, FlightType DEF Kinds
    <3> QED BY <3>2 DEF Flight
  <2>4. r.what = "draft"
    BY DEF Record
  <2>5. /\ rows' = SetStatus(i, "sending") /\ UNCHANGED <<faults, leaving>>
        /\ pending' = Append(pending, f)
        /\ sent' = IF f.lost THEN sent ELSE Append(sent, r)
    BY <2>1 DEF SendDraft, PublishAndAwait, environment, link
  <2> HIDE DEF f, r
  <2>6. RowsStay /\ \A j \in DOMAIN rows : ~rows[j].out => rows'[j] = rows[j]
    BY <2>2, <2>5, MarkedRows
  <2>7. /\ DOMAIN pending' = DOMAIN pending \cup {Len(pending) + 1}
        /\ \A k \in DOMAIN pending : pending'[k] = pending[k]
        /\ pending'[Len(pending) + 1] = f
    BY <2>3, <2>5, PendingAdded
  <2>8. Carried
    BY <2>7 DEF Carried
  <2>9. "draft" \notin Intent
    BY DEF Intent
  <2>10. \A k \in DOMAIN pending' :
             pending'[k].kind \in Intent => k \in DOMAIN pending /\ pending'[k] = pending[k]
    BY <2>3, <2>7, <2>9
  <2>11. \A k \in DOMAIN sent' :
             sent'[k].what \in Intent => k \in DOMAIN sent /\ sent'[k] = sent[k]
    BY <2>4, <2>5, <2>9
  <2> QED BY <2>5, <2>6, <2>8, <2>10, <2>11, AnswersKept
<1>3. ASSUME NEW place, GoTo(place)
      PROVE  AnswersInv'
  <2>1. UNCHANGED <<rows, sent, pending, faults, leaving>>
    BY <1>3 DEF GoTo, clientVars, dialogue, link, environment
  <2> QED BY <2>1, AnswersUntouched
<1> QED BY <1>1, <1>2, <1>3 DEF Dcdu

LEMMA ComposedStepAnswers ==
    ASSUME TypeOK, AnswersInv, Mcdu
    PROVE  AnswersInv'
<1> /\ pending \in Seq(Flights) /\ rows \in Seq(DcduMessage) /\ closed \in BOOLEAN
  BY DEF TypeOK, ClientTypeOK
<1>1. CASE (\E d \in Menu : AddElement(d)) \/ EraseInputs
  <2>1. UNCHANGED <<rows, sent, pending, faults, leaving>>
    BY <1>1 DEF AddElement, EraseInputs, clientVars, dialogue, link, environment
  <2> QED BY <2>1, AnswersUntouched
<1>2. ASSUME NEW s \in Station, Notify(s)
      PROVE  AnswersInv'
  <2>1. Flight("logon", 0, None) \in Flights
    BY Numbers, FlightType DEF Kinds
  <2>2. Flight("logon", 0, None).kind \notin Intent
    BY DEF Flight, Intent
  <2>3. /\ UNCHANGED <<rows, sent, faults, leaving>>
        /\ pending' = Append(pending, Flight("logon", 0, None))
    BY <1>2 DEF Notify, SendLogonRequest, environment, link
  <2> QED BY <2>1, <2>2, <2>3, AnswersUntouched
<1>3. CASE DoTransferToDcdu
  <2>1. PICK new : rows' = Append(rows, new)
    BY <1>3 DEF DoTransferToDcdu, TransferToDcdu
  <2>2. UNCHANGED <<sent, pending, faults, leaving>>
    BY <1>3 DEF DoTransferToDcdu, TransferToDcdu, environment, link
  <2>3. DOMAIN rows \subseteq DOMAIN rows' /\ \A i \in DOMAIN rows : rows'[i] = rows[i]
    BY <2>1
  <2>4. RowsStay /\ Carried
    BY <2>2, <2>3 DEF RowsStay, Carried
  <2> QED BY <2>2, <2>3, <2>4, AnswersKept
<1> QED BY <1>1, <1>2, <1>3 DEF Mcdu

LEMMA AnswersStep ==
    ASSUME TypeOK, LinkInv, HeardInv, RowsInv, AnswersInv, [Next]_vars
    PROVE  AnswersInv'
<1> /\ pending \in Seq(Flights) /\ closed \in BOOLEAN /\ faults \in Nat
  BY DEF TypeOK, ClientTypeOK
<1>1. CASE Connect \/ ConnectFails \/ Heartbeat \/ UNCHANGED vars
  <2>1. /\ UNCHANGED <<rows, sent, pending, leaving>>
        /\ UNCHANGED faults \/ faults' = faults + 1
    BY <1>1 DEF Connect, ConnectFails, Heartbeat, vars, clientVars, dialogue, link, environment
  <2>2. faults' = 0 => faults = 0
    BY <2>1
  <2> QED BY <2>1, <2>2, AnswersUntouched
<1>2. CASE Connected
  <2> DEFINE f == [Flight("online", 0, None) EXCEPT !.lost = FALSE]
  <2>1. f \in Flights /\ f.kind \notin Intent
    BY Numbers DEF Flight, Flights, Intent
  <2>2. UNCHANGED <<rows, sent, faults, leaving>> /\ pending' = Append(pending, f)
    BY <1>2 DEF Connected, environment
  <2> HIDE DEF f
  <2> QED BY <2>1, <2>2, AnswersUntouched
<1>3. CASE Disconnect
  <2>1. Flight("offline", 0, None) \in Flights
    BY Numbers, FlightType DEF Kinds
  <2>2. Flight("offline", 0, None).kind \notin Intent
    BY DEF Flight, Intent
  <2>3. /\ UNCHANGED <<rows, sent, faults>>
        /\ pending' = Append(pending, Flight("offline", 0, None))
        /\ leaving' # "drain" => leaving # "drain"
    BY <1>3 DEF Disconnect, environment
  <2> QED BY <2>1, <2>2, <2>3, AnswersUntouched
<1>4. CASE LeaveCockpit
  <2>1. rows' = << >> /\ pending' = << >> /\ sent' = << >>
    BY <1>4 DEF LeaveCockpit, Drained
  <2>2. DOMAIN rows' = {} /\ DOMAIN pending' = {} /\ DOMAIN sent' = {}
    BY <2>1
  <2> QED BY <2>2 DEF AnswersInv, AwaitInv, SentInv, AnsweredOnce
<1>5. CASE Flushed \/ FlushFailed
  BY <1>5, SettledStepAnswers
<1>6. ASSUME NEW forGood \in BOOLEAN, Break(forGood)
      PROVE  AnswersInv'
  <2>1. /\ UNCHANGED <<rows, sent>> /\ faults' # 0
        /\ pending' = [k \in DOMAIN pending |-> [pending[k] EXCEPT !.lost = TRUE]]
    BY <1>6 DEF Break
  <2>2. \A f \in Flights : /\ [f EXCEPT !.lost = TRUE].row = f.row
                           /\ [f EXCEPT !.lost = TRUE].kind = f.kind
    BY DEF Flights
  <2>3. /\ DOMAIN pending' = DOMAIN pending
        /\ \A k \in DOMAIN pending : /\ pending[k] \in Flights
                                     /\ pending'[k] = [pending[k] EXCEPT !.lost = TRUE]
    BY <2>1
  <2>4. \A k \in DOMAIN pending : /\ pending'[k].row = pending[k].row
                                  /\ pending'[k].kind = pending[k].kind
    BY <2>2, <2>3, Zenon
  <2>5. RowsStay /\ Carried
    BY <2>1, <2>3, <2>4 DEF RowsStay, Carried
  <2> QED BY <2>1, <2>3, <2>4, <2>5, AnswersKept
<1>7. CASE Traffic
  <2>1. ClientTypeOK
    BY DEF TypeOK
  <2>2. CASE ArriveApplication
    <3>1. PICK s, unit \in Station, body \in Uplinks4Me :
              \E mrn \in MinsSentTo(s) \cup {None} :
                  HandleIncoming(Application(s, mrn, body, unit))
      BY <2>2 DEF ArriveApplication, Deliver
    <3> QED BY <2>1, <3>1, ApplicationType, HeardStepAnswers
  <2>3. CASE ArriveMeta \/ ArriveSession
    <3>1. PICK s \in Destination, kind \in {"logonResponse", "connectionRequest", "session"} :
              HandleIncoming(Envelope(kind, s))
      BY <2>3 DEF ArriveMeta, ArriveSession, Deliver, Destination
    <3> QED BY <3>1, MetaType, HeardStepAnswers
  <2>4. ASSUME NEW c \in delivery.to, DeliverAgain(c)
        PROVE  AnswersInv'
    <3>1. delivery \in [msg : Envelopes, to : SUBSET subs]
      BY <2>1, <2>4 DEF ClientTypeOK, Nothing
    <3>2. delivery.msg \in Envelopes /\ HandleIncoming(delivery.msg)
      BY <2>4, <3>1 DEF DeliverAgain
    <3> QED BY <3>2, HeardStepAnswers
  <2> QED BY <1>7, <2>2, <2>3, <2>4, KeyStepAnswers, ComposedStepAnswers DEF Traffic
<1> QED BY <1>1, <1>2, <1>3, <1>4, <1>5, <1>6, <1>7, StepKinds

(* As long as no connection failed, an uplink gets one short answer, or    *)
(* STANDBY and then one other, whatever arrives while an answer is under   *)
(* way and whenever the pilot leaves (useOpenLink.ts: sendResponse;        *)
(* DcduScreen.tsx: the keys that are offered).                             *)
THEOREM AnsweredOnceCorrect == Spec => []AnsweredOnce
<1>1. Init => AnswersInv
  <2> SUFFICES ASSUME Init PROVE AnswersInv
    OBVIOUS
  <2>1. DOMAIN pending = {} /\ DOMAIN sent = {}
    BY DEF Init, ClientInit
  <2> QED BY <2>1 DEF AnswersInv, AwaitInv, SentInv, AnsweredOnce
<1>2. TypeOK /\ LinkInv /\ HeardInv /\ RowsInv /\ AnswersInv /\ [Next]_vars => AnswersInv'
  BY AnswersStep
<1>3. AnswersInv => AnsweredOnce
  BY DEF AnswersInv
<1> QED BY <1>1, <1>2, <1>3, TypeCorrect, LinkHolds, HeardHolds, RowsHold, PTL DEF Spec
=============================================================================
