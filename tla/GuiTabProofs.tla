------------------------------ MODULE GuiTabProofs ------------------------------
(***************************************************************************)
(* Proofs about GuiTab for any stations, aircraft, bodies, menus, MINs and *)
(* bounds: its type invariant, and what the screens and the listener keep  *)
(* true of the tab they share.                                             *)
(***************************************************************************)
EXTENDS GuiTabProperties, PlaceLemmas, FiniteSetTheorems, TLAPS

-----------------------------------------------------------------------------
(* The catalogue, numbers and rows. *)

LEMMA Numbers ==
    /\ MaxMin \in Nat /\ MIN \subseteq 0..MaxMin /\ None \in 0..MaxMin
    /\ \A n \in MIN : n # None /\ n \in Nat
    /\ 1 \in MIN
    /\ \A n \in MIN : NextMin(n) \in MIN
BY BoundsAssumption DEF MIN, None, NextMin

LEMMA Peers ==
    /\ Stations \subseteq Peer /\ Aircraft \subseteq Peer /\ Others \subseteq Peer
    /\ \A p \in Peer : p \in Nat /\ p # None
BY PeerAssumption DEF Peer, Others, None

LEMMA Elements ==
    /\ \A n \in Nat : UM(n) \in Element /\ DM(n) \in Element
    /\ \A intent \in Intent : DownlinkId(intent) \in Element /\ UplinkId(intent) \in Element
    /\ Menu \subseteq Element /\ Templates \subseteq Element
    /\ BodiesForMe \subseteq Seq(Element) /\ << >> \in Seq(Element)
<1>1. \A n \in Nat : UM(n) \in Element /\ DM(n) \in Element
  BY DEF Element, UM, DM
<1>2. \A intent \in Intent : DownlinkId(intent) \in Element /\ UplinkId(intent) \in Element
  BY <1>1 DEF DownlinkId, UplinkId, Intent
<1>3. Menu \subseteq Element /\ Templates \subseteq Element
  BY CatalogueAssumption
<1>4. BodiesForMe \subseteq Seq(Element)
  BY CatalogueAssumption DEF BodiesForMe
<1> QED BY <1>1, <1>2, <1>3, <1>4

LEMMA RowType ==
    ASSUME NEW out \in BOOLEAN, NEW peer \in Peer \cup {None}, NEW min \in 0..MaxMin,
           NEW mrn \in 0..MaxMin, NEW elements \in Seq(Element),
           min # None => peer # None
    PROVE  Row(out, peer, min, mrn, elements) \in Rows
BY DEF Row, Rows

LEMMA MetaRowType ==
    ASSUME NEW out \in BOOLEAN, NEW peer \in Peer \cup {None}
    PROVE  Row(out, peer, None, None, << >>) \in Rows
<1>1. None \in 0..MaxMin /\ << >> \in Seq(Element)
  BY Numbers, Elements
<1> QED BY <1>1, RowType

LEMMA MessageType ==
    ASSUME TabTypeOK, NEW to \in Peer, NEW elements \in Seq(Element),
           NEW mrn \in 0..MaxMin
    PROVE  Message(to, elements, mrn) \in Sent
BY Numbers DEF Message, Sent, TabTypeOK

LEMMA MetaType ==
    ASSUME NEW kind \in MetaKind, NEW to \in Peer
    PROVE  Meta(kind, to) \in Sent
BY Numbers DEF Meta, Sent

LEMMA PublishType ==
    ASSUME TabTypeOK, NEW m \in Sent, Publish(m)
    PROVE  sent' \in Seq(Sent) /\ mins' \in [Peer -> MIN]
<1>1. m.to \in Peer
  BY DEF Sent
<1>2. mins \in [Peer -> MIN] /\ mins[m.to] \in MIN
  BY <1>1 DEF TabTypeOK
<1>3. NextMin(mins[m.to]) \in MIN
  BY <1>2, Numbers
<1>4. mins' = [mins EXCEPT ![m.to] = NextMin(mins[m.to])]
  BY DEF Publish
<1>5. sent' \in Seq(Sent)
  BY DEF Publish, TabTypeOK
<1> QED BY <1>1, <1>2, <1>3, <1>4, <1>5

LEMMA StartOverType ==
    ASSUME TabTypeOK, NEW ms \in Seq(Sent), NEW p \in Peer, PublishAndStartOver(ms, p)
    PROVE  sent' \in Seq(Sent) /\ mins' \in [Peer -> MIN]
BY Numbers DEF PublishAndStartOver, TabTypeOK

(* Marking a row as responded leaves the messages as they are.             *)
SameMessage(r, s) ==
    /\ r.out = s.out /\ r.peer = s.peer /\ r.min = s.min /\ r.mrn = s.mrn
    /\ r.elements = s.elements

SameMessages(rs, ss) ==
    /\ Len(rs) = Len(ss)
    /\ \A i \in DOMAIN ss : SameMessage(rs[i], ss[i])

LEMMA RespondedType ==
    ASSUME NEW rs \in Seq(Rows), NEW i \in DOMAIN rs
    PROVE  /\ [rs EXCEPT ![i].responded = TRUE] \in Seq(Rows)
           /\ SameMessages([rs EXCEPT ![i].responded = TRUE], rs)
<1> DEFINE marked == [rs EXCEPT ![i].responded = TRUE]
<1>1. rs[i] \in Rows
  OBVIOUS
<1>2. [rs[i] EXCEPT !.responded = TRUE] \in Rows
  BY <1>1 DEF Rows
<1>3. SameMessage([rs[i] EXCEPT !.responded = TRUE], rs[i])
  BY <1>1 DEF Rows, SameMessage
<1>4. marked \in Seq(Rows) /\ Len(marked) = Len(rs)
  BY <1>2
<1>5. \A j \in DOMAIN rs : j # i => marked[j] = rs[j]
  OBVIOUS
<1>6. marked[i] = [rs[i] EXCEPT !.responded = TRUE]
  OBVIOUS
<1>7. SameMessages(marked, rs)
  <2> HIDE DEF marked
  <2> QED BY <1>3, <1>4, <1>5, <1>6 DEF SameMessages, SameMessage
<1> QED BY <1>4, <1>7

LEMMA MarkRespondedType ==
    ASSUME NEW rs \in Seq(Rows), NEW min
    PROVE  MarkResponded(rs, min) \in Seq(Rows) /\ SameMessages(MarkResponded(rs, min), rs)
<1> DEFINE found == {i \in DOMAIN rs : ~rs[i].out /\ rs[i].min = min}
           first == Min(found)
<1>1. SameMessages(rs, rs)
  BY DEF SameMessages, SameMessage
<1>2. CASE found = {} \/ min = None
  BY <1>1, <1>2 DEF MarkResponded
<1>3. CASE found # {} /\ min # None
  <2>1. found \subseteq Nat
    OBVIOUS
  <2>2. first \in found
    <3> HIDE DEF found
    <3>1. \E i \in found : \A j \in found : i <= j
      BY <1>3, <2>1, FirstExists
    <3> QED BY <3>1 DEF Min
  <2>3. first \in DOMAIN rs
    BY <2>2
  <2>4. MarkResponded(rs, min) = [rs EXCEPT ![first].responded = TRUE]
    BY <1>3 DEF MarkResponded
  <2> HIDE DEF first
  <2> QED BY <2>3, <2>4, RespondedType
<1> QED BY <1>2, <1>3

(* The rows only grow, apart from being marked.                            *)
RowsGrow ==
    /\ Len(rows) <= Len(rows')
    /\ \A i \in DOMAIN rows : SameMessage(rows'[i], rows[i])

LEMMA GrownRows ==
    ASSUME NEW rs \in Seq(Rows), NEW new \in Seq(Rows),
           rows \in Seq(Rows), SameMessages(rs, rows), rows' = rs \o new
    PROVE  rows' \in Seq(Rows) /\ RowsGrow
BY DEF SameMessages, RowsGrow

LEMMA SameRows == rows \in Seq(Rows) => SameMessages(rows, rows)
BY DEF SameMessages, SameMessage

LEMMA AppendedRow ==
    ASSUME NEW rs \in Seq(Rows), NEW row \in Rows, rows \in Seq(Rows),
           SameMessages(rs, rows), rows' = Append(rs, row)
    PROVE  rows' \in Seq(Rows) /\ RowsGrow
BY DEF SameMessages, RowsGrow

LEMMA UnchangedRows ==
    ASSUME rows \in Seq(Rows), UNCHANGED rows
    PROVE  rows' \in Seq(Rows) /\ RowsGrow
BY DEF RowsGrow, SameMessage

-----------------------------------------------------------------------------
(* The listener keeps types. *)

LEMMA ReceiveType ==
    ASSUME TabTypeOK, NEW p \in Others, NEW elements \in BodiesForMe,
           NEW unit \in Others, NEW mrn \in MinsSentTo(p) \cup {None},
           Receive(p, elements, mrn, unit)
    PROVE  TabTypeOK' /\ RowsGrow
<1>1. /\ p \in Peer /\ unit \in Peer /\ elements \in Seq(Element)
      /\ peerMins[p] \in MIN /\ peerMins[p] \in 0..MaxMin
  BY Peers, Elements, Numbers DEF TabTypeOK
<1>2. mrn \in 0..MaxMin
  <2>1. CASE mrn = None
    BY <2>1, Numbers
  <2>2. CASE mrn \in MinsSentTo(p)
    <3>1. PICK i \in DOMAIN sent : mrn = sent[i].min
      BY <2>2 DEF MinsSentTo
    <3>2. sent[i] \in Sent
      BY DEF TabTypeOK
    <3> QED BY <3>1, <3>2 DEF Sent
  <2> QED BY <2>1, <2>2
<1>3. peerMins' \in [Peer -> MIN]
  <2>1. NextMin(peerMins[p]) \in MIN
    BY <1>1, Numbers
  <2>2. peerMins' = [peerMins EXCEPT ![p] = NextMin(peerMins[p])]
    BY DEF Receive
  <2> QED BY <1>1, <2>1, <2>2 DEF TabTypeOK
<1>4. arrivals' \in 0..MaxArrivals
  BY BoundsAssumption DEF Receive, Arrive, TabTypeOK
<1>5. UNCHANGED <<screen, session, flights, renumbered>>
  BY DEF Receive
<1>6. /\ rows' \in Seq(Rows) /\ RowsGrow /\ handling' \in Busy \cup {Idle}
      /\ sent' \in Seq(Sent) /\ mins' \in [Peer -> MIN]
  <2>1. CASE ShouldAck(elements, peerMins[p])
    <3> DEFINE ack == <<IF Pilot THEN DM(100) ELSE UM(227)>>
    <3>1. ack \in Seq(Element)
      BY Elements
    <3> HIDE DEF ack
    <3>2. Message(p, ack, peerMins[p]) \in Sent
      BY <1>1, <3>1, MessageType
    <3>3. Publish(Message(p, ack, peerMins[p])) /\ UNCHANGED rows
      BY <2>1 DEF Receive, ack
    <3>4. handling' \in Busy
      BY <1>1, <1>2, <2>1 DEF Receive, Busy
    <3>5. rows \in Seq(Rows)
      BY DEF TabTypeOK
    <3> QED BY <3>2, <3>3, <3>4, <3>5, PublishType, UnchangedRows
  <2>2. CASE ~ShouldAck(elements, peerMins[p])
    <3>1. Row(FALSE, p, peerMins[p], mrn, elements) \in Rows
      BY <1>1, <1>2, Peers, RowType
    <3>2. /\ rows' = Append(rows, Row(FALSE, p, peerMins[p], mrn, elements))
          /\ UNCHANGED <<handling, sent, mins>>
      BY <2>2 DEF Receive
    <3> QED BY <3>1, <3>2, AppendedRow, SameRows DEF TabTypeOK
  <2> QED BY <2>1, <2>2
<1> QED BY <1>3, <1>4, <1>5, <1>6 DEF TabTypeOK

LEMMA LogOnToUnitType ==
    ASSUME TabTypeOK, LogOnToUnit
    PROVE  TabTypeOK' /\ RowsGrow
<1>1. handling \in Busy
  BY DEF LogOnToUnit, TabTypeOK, Idle
<1>2. handling.unit \in Peer
  BY <1>1 DEF Busy
<1>3. <<Meta("logon", handling.unit)>> \in Seq(Sent)
  BY <1>2, MetaType DEF MetaKind
<1>4. sent' \in Seq(Sent) /\ mins' \in [Peer -> MIN]
  BY <1>2, <1>3, StartOverType DEF LogOnToUnit
<1>5. rows' \in Seq(Rows) /\ RowsGrow
  <2>1. Row(TRUE, None, None, None, << >>) \in Rows
    BY MetaRowType
  <2> QED BY <2>1, AppendedRow, SameRows DEF LogOnToUnit, TabTypeOK
<1>6. handling' \in Busy
  BY <1>1 DEF LogOnToUnit, Busy
<1> QED BY <1>4, <1>5, <1>6 DEF LogOnToUnit, environment, TabTypeOK

LEMMA StoreRowType ==
    ASSUME TabTypeOK, StoreRow
    PROVE  TabTypeOK' /\ RowsGrow
<1>1. handling \in Busy
  BY DEF StoreRow, TabTypeOK, Idle
<1>2. Row(FALSE, handling.from, handling.min, handling.mrn, handling.elements) \in Rows
  BY <1>1, Numbers, Peers, RowType DEF Busy
<1>3. rows' \in Seq(Rows) /\ RowsGrow
  BY <1>2, AppendedRow, SameRows DEF StoreRow, TabTypeOK
<1> QED BY <1>3 DEF StoreRow, environment, TabTypeOK

LEMMA StartsOverType ==
    ASSUME TabTypeOK, NEW p \in Peer, PeerStartsOver(p)
    PROVE  renumbered' \in 0..MaxRenumber /\ peerMins' \in [Peer -> MIN]
BY BoundsAssumption, Numbers DEF PeerStartsOver, TabTypeOK

LEMMA ArriveType ==
    ASSUME TabTypeOK, Arrive
    PROVE  arrivals' \in 0..MaxArrivals
BY BoundsAssumption DEF Arrive, TabTypeOK

LEMMA ReceiveMetaType ==
    ASSUME TabTypeOK, NEW p \in Others,
           ReceiveConnectionRequest(p) \/ ReceiveLogon(p) \/ ReceiveLogonForward(p)
    PROVE  TabTypeOK' /\ RowsGrow
<1>1. p \in Peer
  BY Peers
<1>2. Row(TRUE, None, None, None, << >>) \in Rows /\ Row(FALSE, p, None, None, << >>) \in Rows
      /\ Row(FALSE, None, None, None, << >>) \in Rows
  BY <1>1, MetaRowType
<1>3. CASE ReceiveConnectionRequest(p)
  <2>1. sent' \in Seq(Sent)
    BY <1>1, <1>3, MetaType DEF ReceiveConnectionRequest, MetaKind, TabTypeOK
  <2> QED
    BY <1>1, <1>3, <2>1, StartsOverType, ArriveType, UnchangedRows
    DEF ReceiveConnectionRequest, listener, TabTypeOK
<1>4. CASE ReceiveLogon(p)
  <2>1. rows' \in Seq(Rows) /\ RowsGrow
    BY <1>2, <1>4, AppendedRow, SameRows DEF ReceiveLogon, TabTypeOK
  <2>2. renumbered' \in 0..MaxRenumber /\ peerMins' \in [Peer -> MIN]
    BY <1>1, <1>4, StartsOverType DEF ReceiveLogon, TabTypeOK
  <2> QED BY <1>4, <2>1, <2>2, ArriveType DEF ReceiveLogon, listener, TabTypeOK
<1>5. CASE ReceiveLogonForward(p)
  <2> DEFINE new == <<Row(TRUE, None, None, None, << >>), Row(FALSE, None, None, None, << >>)>>
  <2>1. new \in Seq(Rows)
    <3>1. \A r, q \in Rows : <<r, q>> \in Seq(Rows)
      OBVIOUS
    <3> QED BY <1>2, <3>1
  <2>2. rows' = rows \o new
    BY <1>5 DEF ReceiveLogonForward
  <2> HIDE DEF new
  <2>3. rows' \in Seq(Rows) /\ RowsGrow
    BY <2>1, <2>2, GrownRows, SameRows DEF TabTypeOK
  <2>4. <<Meta("connectionRequest", p)>> \in Seq(Sent)
    BY <1>1, MetaType DEF MetaKind
  <2>5. sent' \in Seq(Sent) /\ mins' \in [Peer -> MIN]
    BY <1>1, <1>5, <2>4, StartOverType DEF ReceiveLogonForward
  <2> QED BY <1>5, <2>3, <2>5, ArriveType DEF ReceiveLogonForward, listener, TabTypeOK
<1> QED BY <1>3, <1>4, <1>5

LEMMA UpdateSessionType ==
    ASSUME TabTypeOK, NEW c \in Connection, UpdateSession(c)
    PROVE  TabTypeOK' /\ RowsGrow
BY UnchangedRows DEF UpdateSession, environment, TabTypeOK

LEMMA ListenType ==
    ASSUME TabTypeOK, Listen
    PROVE  TabTypeOK' /\ RowsGrow
BY ReceiveType, LogOnToUnitType, StoreRowType, ReceiveMetaType, UpdateSessionType DEF Listen

-----------------------------------------------------------------------------
(* What users send keeps types. *)

LEMMA SendDownlinkType ==
    ASSUME TabTypeOK, NEW to \in Peer \cup {None}, NEW elements \in Seq(Element),
           NEW mrn \in 0..MaxMin, SendDownlink(to, elements, mrn)
    PROVE  TabTypeOK' /\ RowsGrow
<1>1. to \in Peer
  BY DEF SendDownlink
<1>2. sent' \in Seq(Sent) /\ mins' \in [Peer -> MIN]
  BY <1>1, MessageType, PublishType DEF SendDownlink
<1>3. rows' \in Seq(Rows) /\ RowsGrow
  <2> DEFINE row == Row(TRUE, None, None, mrn, elements)
             listed == Append(rows, row)
  <2>1. row \in Rows
    BY Numbers, RowType
  <2>2. listed \in Seq(Rows) /\ Len(listed) = Len(rows) + 1 /\ Len(rows) \in Nat
        /\ \A i \in DOMAIN rows : listed[i] = rows[i] /\ i \in DOMAIN listed
    <3> HIDE DEF row
    <3> QED BY <2>1 DEF TabTypeOK
  <2>3. rows' = listed \/ rows' = MarkResponded(listed, mrn)
    BY DEF SendDownlink
  <2> HIDE DEF listed
  <2>4. rows' \in Seq(Rows) /\ SameMessages(rows', listed)
    <3>1. SameMessages(listed, listed)
      BY DEF SameMessages, SameMessage
    <3> QED BY <2>2, <2>3, <3>1, MarkRespondedType
  <2> QED BY <2>2, <2>4 DEF SameMessages, SameMessage, RowsGrow
<1> QED BY <1>2, <1>3 DEF SendDownlink, environment, TabTypeOK

LEMMA SendUplinkType ==
    ASSUME TabTypeOK, NEW to \in Peer, NEW elements \in Seq(Element),
           NEW mrn \in 0..MaxMin, SendUplink(to, elements, mrn)
    PROVE  TabTypeOK' /\ RowsGrow
<1>1. sent' \in Seq(Sent) /\ mins' \in [Peer -> MIN]
  BY MessageType, PublishType DEF SendUplink
<1>2. mins[to] \in 0..MaxMin
  BY Numbers DEF TabTypeOK
<1>3. Row(TRUE, to, mins[to], mrn, elements) \in Rows
  BY <1>2, Peers, RowType
<1>4. rows' \in Seq(Rows) /\ RowsGrow
  BY <1>3, AppendedRow, SameRows DEF SendUplink, TabTypeOK
<1> QED BY <1>1, <1>4 DEF SendUplink, environment, TabTypeOK

LEMMA StationType ==
    ASSUME TabTypeOK
    PROVE  Station \in Peer \cup {None}
BY Peers DEF TabTypeOK, Connection, NoConnection, Station

LEMMA RowAt ==
    ASSUME TabTypeOK, NEW i \in DOMAIN rows
    PROVE  /\ rows[i].min \in 0..MaxMin /\ rows[i].mrn \in 0..MaxMin
           /\ rows[i].peer \in Peer \cup {None} /\ rows[i].out \in BOOLEAN
           /\ rows[i].elements \in Seq(Element)
           /\ rows[i].min # None => rows[i].peer # None
<1>1. rows[i] \in Rows
  BY DEF TabTypeOK
<1> QED BY <1>1 DEF Rows

LEMMA UnchangedTab ==
    ASSUME TabTypeOK, UNCHANGED tabVars
    PROVE  TabTypeOK' /\ RowsGrow
BY UnchangedRows DEF tabVars, TabTypeOK

-----------------------------------------------------------------------------
(* The classic screen keeps types. *)

LEMMA EmptyType == Empty \in [open : BOOLEAN, pending : Menu \cup {NoId},
                              filled : BOOLEAN, mode : BOOLEAN, elements : Seq(Element),
                              mrn : 0..MaxMin, sendAfter : BOOLEAN]
BY Numbers, Elements DEF Empty

LEMMA DcduConnectionType ==
    ASSUME TabTypeOK, DcduTypeOK, CancelLogon \/ \E p \in Stations : Logon(p)
    PROVE  TabTypeOK' /\ RowsGrow /\ DcduTypeOK'
<1>1. ASSUME NEW p \in Stations, Logon(p)
      PROVE  TabTypeOK' /\ RowsGrow /\ DcduTypeOK'
  <2>1. p \in Peer
    BY Peers
  <2>2. <<Meta("logon", p)>> \in Seq(Sent)
    BY <2>1, MetaType DEF MetaKind
  <2>3. sent' \in Seq(Sent) /\ mins' \in [Peer -> MIN]
    BY <1>1, <2>1, <2>2, StartOverType DEF Logon
  <2>4. rows' \in Seq(Rows) /\ RowsGrow
    BY <1>1, MetaRowType, AppendedRow, SameRows DEF Logon, TabTypeOK
  <2> QED BY <1>1, <2>3, <2>4 DEF Logon, environment, TabTypeOK, DcduTypeOK
<1>2. CASE CancelLogon
  <2>1. session' \in Connection
    BY <1>2 DEF CancelLogon, Connection
  <2> QED BY <1>2, <2>1, UnchangedRows DEF CancelLogon, environment, TabTypeOK, DcduTypeOK
<1> QED BY <1>1, <1>2

LEMMA RespondTypes ==
    ASSUME TabTypeOK, DcduTypeOK, NEW i \in DOMAIN rows, NEW intent \in Intent,
           Respond(i, intent)
    PROVE  TabTypeOK' /\ RowsGrow /\ DcduTypeOK'
<1>1. rows[i].min \in 0..MaxMin
  BY RowAt
<1>2. <<DownlinkId(intent)>> \in Seq(Element)
  BY Elements
<1>3. SendDownlink(Station, <<DownlinkId(intent)>>, rows[i].min) /\ UNCHANGED dcdu
  BY DEF Respond
<1> QED BY <1>1, <1>2, <1>3, StationType, SendDownlinkType DEF DcduTypeOK

(* COMPOSE starts from an answer that there is.                            *)
LEMMA FirstIntentType ==
    ASSUME NEW elements, PilotIntents(elements) # {}
    PROVE  FirstIntent(PilotIntents(elements)) \in Intent
<1>1. PilotIntents(elements) \in {{"Wilco", "Unable", "Standby"},
                                  {"Affirm", "Negative", "Standby"},
                                  {"Roger", "Standby"}, {"Unable", "Standby"}}
  BY DEF PilotIntents, ForAttribute
<1>2. ASSUME NEW intents \in {{"Wilco", "Unable", "Standby"},
                              {"Affirm", "Negative", "Standby"},
                              {"Roger", "Standby"}, {"Unable", "Standby"}}
      PROVE  FirstIntent(intents) \in Intent
  <2>1. CASE intents = {"Unable", "Standby"}
    BY <2>1 DEF FirstIntent, Intent
  <2>2. CASE intents # {"Unable", "Standby"}
    <3>1. \E first \in intents : first \in {"Wilco", "Affirm", "Roger"}
      BY <1>2, <2>2
    <3>2. FirstIntent(intents) \in {"Wilco", "Affirm", "Roger"}
      BY <2>2, <3>1 DEF FirstIntent
    <3> QED BY <3>2 DEF Intent
  <2> QED BY <2>1, <2>2
<1> QED BY <1>1, <1>2

LEMMA RespondComposeTypes ==
    ASSUME TabTypeOK, DcduTypeOK, NEW i \in DOMAIN rows, RespondCompose(i)
    PROVE  TabTypeOK' /\ RowsGrow /\ DcduTypeOK'
<1>1. rows[i].min \in 0..MaxMin
  BY RowAt
<1>2. DownlinkId(FirstIntent(PilotIntents(rows[i].elements))) \in Element
  BY FirstIntentType, Elements DEF RespondCompose
<1>3. dcdu.elements \in Seq(Element)
  BY DEF DcduTypeOK
<1>4. DcduTypeOK'
  BY <1>1, <1>2, <1>3 DEF RespondCompose, DcduTypeOK
<1> QED BY <1>4, UnchangedTab DEF RespondCompose

LEMMA PopoverType ==
    ASSUME TabTypeOK, DcduTypeOK,
           \/ Toggle \/ ClearComposer \/ SendAll
           \/ \E d \in Menu : Pick(d) \/ Add(d)
           \/ \E parses \in BOOLEAN : Fill(parses)
           \/ CancelParameters \/ Submit
    PROVE  TabTypeOK' /\ RowsGrow /\ DcduTypeOK'
<1>1. CASE Toggle
  BY <1>1, EmptyType, UnchangedTab DEF Toggle, DcduTypeOK
<1>2. CASE ClearComposer
  BY <1>2, Numbers, Elements, UnchangedTab DEF ClearComposer, DcduTypeOK
<1>3. CASE SendAll
  <2>1. dcdu.elements \in Seq(Element) /\ dcdu.mrn \in 0..MaxMin
    BY DEF DcduTypeOK
  <2>2. TabTypeOK' /\ RowsGrow
    BY <1>3, <2>1, StationType, SendDownlinkType DEF SendAll
  <2> QED BY <1>3, <2>2, EmptyType DEF SendAll, DcduTypeOK
<1>4. ASSUME NEW d \in Menu, Pick(d) PROVE TabTypeOK' /\ RowsGrow /\ DcduTypeOK'
  <2>1. /\ <<d>> \in Seq(Element) /\ Append(dcdu.elements, d) \in Seq(Element)
        /\ dcdu.mrn \in 0..MaxMin /\ None \in 0..MaxMin
    BY Elements, Numbers DEF DcduTypeOK
  <2>2. CASE Ask(d, HasQueue) /\ UNCHANGED tabVars
    <3>1. HasQueue \in BOOLEAN
      BY DEF HasQueue, DcduTypeOK
    <3> QED BY <2>2, <3>1, UnchangedTab DEF Ask, DcduTypeOK
  <2>3. CASE SendDownlink(Station, Append(dcdu.elements, d), dcdu.mrn) /\ dcdu' = Empty
    BY <2>1, <2>3, EmptyType, StationType, SendDownlinkType DEF DcduTypeOK
  <2>4. CASE /\ SendDownlink(Station, <<d>>, None)
             /\ dcdu' = [dcdu EXCEPT !.open = FALSE, !.filled = FALSE]
    BY <2>1, <2>4, StationType, SendDownlinkType DEF DcduTypeOK
  <2> QED BY <1>4, <2>2, <2>3, <2>4 DEF Pick
<1>5. ASSUME NEW d \in Menu, Add(d) PROVE TabTypeOK' /\ RowsGrow /\ DcduTypeOK'
  <2>1. Append(dcdu.elements, d) \in Seq(Element)
    BY Elements DEF DcduTypeOK
  <2> QED BY <1>5, <2>1, UnchangedTab DEF Add, DcduTypeOK
<1>6. ASSUME NEW parses \in BOOLEAN, Fill(parses)
      PROVE  TabTypeOK' /\ RowsGrow /\ DcduTypeOK'
  BY <1>6, UnchangedTab DEF Fill, DcduTypeOK
<1>7. CASE CancelParameters
  BY <1>7, UnchangedTab DEF CancelParameters, DcduTypeOK
<1>8. CASE Submit
  <2>1. dcdu.pending \in Menu
    BY <1>8 DEF Submit, DcduTypeOK
  <2>2. /\ <<dcdu.pending>> \in Seq(Element)
        /\ Append(dcdu.elements, dcdu.pending) \in Seq(Element)
        /\ dcdu.mrn \in 0..MaxMin /\ None \in 0..MaxMin
    BY <2>1, Elements, Numbers DEF DcduTypeOK
  <2>3. CASE /\ SendDownlink(Station, Append(dcdu.elements, dcdu.pending), dcdu.mrn)
             /\ dcdu' = Empty
    BY <2>2, <2>3, EmptyType, StationType, SendDownlinkType DEF DcduTypeOK
  <2>4. CASE /\ dcdu' = [dcdu EXCEPT !.elements = Append(@, dcdu.pending),
                                     !.pending = NoId, !.filled = FALSE]
             /\ UNCHANGED tabVars
    BY <2>2, <2>4, UnchangedTab DEF DcduTypeOK
  <2>5. CASE /\ SendDownlink(Station, <<dcdu.pending>>, None)
             /\ dcdu' = [dcdu EXCEPT !.open = FALSE, !.pending = NoId, !.filled = FALSE,
                                     !.sendAfter = FALSE]
    BY <2>2, <2>5, StationType, SendDownlinkType DEF DcduTypeOK
  <2> QED BY <1>8, <2>3, <2>4, <2>5 DEF Submit
<1> QED BY <1>1, <1>2, <1>3, <1>4, <1>5, <1>6, <1>7, <1>8

LEMMA DcduStepType ==
    ASSUME TabTypeOK, DcduTypeOK, DcduStep
    PROVE  TabTypeOK' /\ RowsGrow /\ DcduTypeOK'
BY DcduConnectionType, RespondTypes, RespondComposeTypes, PopoverType DEF DcduStep

-----------------------------------------------------------------------------
(* The A320 screen keeps types. *)

LEMMA LatestIn ==
    ASSUME TabTypeOK, NEW places \in SUBSET (DOMAIN rows), places # {}
    PROVE  Max(places) \in places
<1>1. places \subseteq 1..Len(rows) /\ Len(rows) \in Nat
  BY DEF TabTypeOK
<1>2. \E i \in places : \A j \in places : j <= i
  BY <1>1, LastExists
<1> QED BY <1>2 DEF Max

LEMMA ShownType ==
    ASSUME TabTypeOK
    PROVE  Shown \in DOMAIN rows \cup {0}
<1>1. Visible \in SUBSET (DOMAIN rows)
  BY DEF Visible
<1> QED BY <1>1, LatestIn DEF Shown

LEMMA CorrespondentType ==
    ASSUME TabTypeOK
    PROVE  Correspondent \in Peer \cup {None}
<1>1. CASE session.peer # None
  BY <1>1, Peers DEF TabTypeOK, Connection, NoConnection, Correspondent
<1>2. CASE session.peer = None /\ Senders = {}
  BY <1>2 DEF Correspondent
<1>3. CASE session.peer = None /\ Senders # {}
  <2>1. Senders \in SUBSET (DOMAIN rows)
    BY DEF Senders
  <2>2. Max(Senders) \in DOMAIN rows
    BY <1>3, <2>1, LatestIn
  <2>3. Correspondent = rows[Max(Senders)].peer
    BY <1>3 DEF Correspondent
  <2> QED BY <2>2, <2>3, RowAt
<1> QED BY <1>1, <1>2, <1>3

LEMMA OpenMinType ==
    ASSUME TabTypeOK
    PROVE  OpenMin \in 0..MaxMin
<1>1. CASE Shown = 0
  BY <1>1, Numbers DEF OpenMin
<1>2. CASE Shown # 0
  <2>1. Shown \in DOMAIN rows
    BY <1>2, ShownType
  <2>2. rows[Shown].min \in 0..MaxMin
    BY <2>1, RowAt
  <2> QED BY <2>2, Numbers DEF OpenMin
<1> QED BY <1>1, <1>2

LEMMA KeysOfNone == Keys(ArrangeResponses({})) = {}
<1>1. Cardinality({}) # 1 /\ {} # {"Unable", "Standby"}
  BY FS_EmptySet
<1>2. ArrangeResponses({}) = [topLeft |-> "", topRight |-> "", botLeft |-> "",
                              botRight |-> ""]
  BY <1>1 DEF ArrangeResponses
<1>3. Keys([topLeft |-> "", topRight |-> "", botLeft |-> "", botRight |-> ""]) = {}
  BY DEF Keys
<1> QED BY <1>2, <1>3

(* A key is only pressed under a row, and under no draft.                  *)
LEMMA PressedRow ==
    ASSUME TabTypeOK, NEW intent \in Intent, Press(intent)
    PROVE  Shown \in DOMAIN rows /\ a320.draft = << >>
<1>1. Keys(ArrangeResponses(Offered)) # {}
  BY DEF Press
<1>2. Offered # {}
  BY <1>1, KeysOfNone
<1> QED BY <1>2, ShownType DEF Offered

LEMMA PressType ==
    ASSUME TabTypeOK, A320TypeOK, NEW intent \in Intent, Press(intent)
    PROVE  TabTypeOK' /\ RowsGrow /\ A320TypeOK'
<1> DEFINE min == rows[Shown].min
<1>1. min \in 0..MaxMin /\ min # None
  BY PressedRow, RowAt DEF Press
<1>2. min \in MIN
  BY <1>1, BoundsAssumption DEF MIN, None
<1>3. <<DownlinkId(intent)>> \in Seq(Element)
  BY Elements
<1>4. SendDownlink(Correspondent, <<DownlinkId(intent)>>, min)
  BY DEF Press
<1>5. TabTypeOK' /\ RowsGrow
  BY <1>1, <1>3, <1>4, CorrespondentType, SendDownlinkType
<1>6. a320' = [a320 EXCEPT !.standby = IF intent = "Standby" THEN @ \cup {min}
                                                            ELSE @ \ {min}]
  BY DEF Press
<1> HIDE DEF min
<1> QED BY <1>2, <1>5, <1>6 DEF A320TypeOK

LEMMA SendDraftType ==
    ASSUME TabTypeOK, A320TypeOK, SendDraft
    PROVE  TabTypeOK' /\ RowsGrow /\ A320TypeOK'
<1>1. a320.draft \in Seq(Menu) /\ a320.draftMrn \in 0..MaxMin
  BY DEF A320TypeOK
<1>2. a320.draft \in Seq(Element)
  <2>1. Menu \subseteq Element
    BY Elements
  <2> QED BY <1>1, <2>1
<1>3. SendDownlink(Correspondent, a320.draft, a320.draftMrn)
  BY DEF SendDraft
<1>4. TabTypeOK' /\ RowsGrow
  BY <1>1, <1>2, <1>3, CorrespondentType, SendDownlinkType
<1>5. << >> \in Seq(Menu)
  OBVIOUS
<1>6. a320' = [a320 EXCEPT !.draft = << >>, !.draftMrn = None]
  BY DEF SendDraft
<1>7. A320TypeOK'
  BY <1>5, <1>6, Numbers DEF A320TypeOK
<1> QED BY <1>4, <1>7

(* What is taken out of a page leaves entries of the menu.                 *)
LEMMA RemoveFirstType ==
    ASSUME NEW S, NEW s \in Seq(S), NEW e
    PROVE  RemoveFirst(s, e) \in Seq(S)
<1> DEFINE I == {i \in 1..Len(s) : s[i] = e}
<1>1. CASE I = {}
  BY <1>1 DEF RemoveFirst
<1>2. CASE I # {}
  <2>1. Min(I) \in I
    <3>1. I \subseteq Nat
      OBVIOUS
    <3> HIDE DEF I
    <3>2. \E i \in I : \A j \in I : i <= j
      BY <1>2, <3>1, FirstExists
    <3> QED BY <3>2 DEF Min
  <2>2. RemoveFirst(s, e) = RemoveAt(s, Min(I))
    BY <1>2 DEF RemoveFirst, SelectInSeq
  <2>3. Min(I) \in 1..Len(s)
    BY <2>1
  <2> HIDE DEF I
  <2>4. SubSeq(s, 1, Min(I) - 1) \in Seq(S) /\ SubSeq(s, Min(I) + 1, Len(s)) \in Seq(S)
    BY <2>3
  <2> QED BY <2>2, <2>4 DEF RemoveAt
<1> QED BY <1>1, <1>2

LEMMA A320StepType ==
    ASSUME TabTypeOK, A320TypeOK, A320Step
    PROVE  TabTypeOK' /\ RowsGrow /\ A320TypeOK'
<1>1. ASSUME NEW d \in Menu, Enter(d) PROVE TabTypeOK' /\ RowsGrow /\ A320TypeOK'
  <2> DEFINE kept == IF d = DM(67) \/ ~TakesArguments(d) THEN a320.pending
                     ELSE RemoveFirst(a320.pending, d)
  <2>1. kept \in Seq(Menu)
    BY RemoveFirstType DEF A320TypeOK
  <2>2. Append(kept, d) \in Seq(Menu)
    BY <2>1
  <2>3. a320' = [a320 EXCEPT !.pending = Append(kept, d)] /\ UNCHANGED tabVars
    BY <1>1 DEF Enter
  <2> HIDE DEF kept
  <2>4. A320TypeOK'
    BY <2>2, <2>3 DEF A320TypeOK
  <2> QED BY <2>3, <2>4, UnchangedTab
<1>2. CASE Erase
  <2>1. << >> \in Seq(Menu)
    OBVIOUS
  <2>2. A320TypeOK'
    BY <1>2, <2>1 DEF Erase, A320TypeOK
  <2> QED BY <1>2, <2>2, UnchangedTab DEF Erase
<1>3. CASE Transfer
  <2>1. << >> \in Seq(Menu) /\ a320.pending \in Seq(Menu)
    BY DEF A320TypeOK
  <2>2. A320TypeOK'
    BY <1>3, <2>1, OpenMinType DEF Transfer, A320TypeOK
  <2> QED BY <1>3, <2>2, UnchangedTab DEF Transfer
<1> QED BY <1>1, <1>2, <1>3, PressType, SendDraftType DEF A320Step

-----------------------------------------------------------------------------
(* The controller's screen keeps types. *)

LEMMA LinkedFinite ==
    /\ IsFiniteSet(Aircraft) /\ IsFiniteSet(Linked)
    /\ Cardinality(Linked) <= Cardinality(Aircraft)
    /\ Cardinality(Linked) \in Nat /\ Cardinality(Aircraft) \in Nat
<1>1. IsFiniteSet(Aircraft) /\ Linked \subseteq Aircraft
  BY PeerAssumption DEF Linked
<1> QED BY <1>1, FS_Subset, FS_CardinalityType

LEMMA PlaceType ==
    ASSUME NEW p
    PROVE  Place(p, Linked) \in 0..Cardinality(Linked)
<1>1. {q \in Linked : q <= p} \subseteq Linked
  OBVIOUS
<1>2. /\ Cardinality({q \in Linked : q <= p}) <= Cardinality(Linked)
      /\ Cardinality({q \in Linked : q <= p}) \in Nat
  BY <1>1, LinkedFinite, FS_Subset, FS_CardinalityType
<1> QED BY <1>2, LinkedFinite DEF Place

(* A card is about a row that came from, or went to, an aircraft.          *)
CardFor(card) ==
    \E i \in DOMAIN rows :
        rows[i].min # None /\ card.min = rows[i].min /\ card.aircraft = rows[i].peer

LEMMA CandidatesIn ==
    Candidates \in SUBSET (DOMAIN rows) /\ \A i \in Candidates : rows[i].min # None
BY DEF Candidates

LEMMA ActionSourceIn ==
    ASSUME TabTypeOK, NEW dialogue \in Dialogues, NEW s \in ActionSource(dialogue)
    PROVE  s \in Candidates
<1>1. dialogue \subseteq Candidates /\ dialogue # {}
  BY DEF Dialogues, SameAircraft
<1>2. dialogue \subseteq 1..Len(rows) /\ Len(rows) \in Nat
  BY <1>1, CandidatesIn DEF TabTypeOK
<1>3. \E i \in dialogue : \A j \in dialogue : j <= i
  BY <1>1, <1>2, LastExists
<1>4. Max(dialogue) \in dialogue
  BY <1>3 DEF Max
<1> DEFINE putOff == FindByMin(rows[Max(dialogue)].mrn, rows[Max(dialogue)].peer)
<1>5. putOff \subseteq Candidates
  BY DEF FindByMin
<1>6. putOff \subseteq Nat
  BY <1>5, CandidatesIn DEF TabTypeOK
<1>7. ASSUME putOff # {} PROVE Min(putOff) \in putOff
  <2> HIDE DEF putOff
  <2>1. \E i \in putOff : \A j \in putOff : i <= j
    BY <1>6, <1>7, FirstExists
  <2> QED BY <2>1 DEF Min
<1>8. s = Max(dialogue) \/ (putOff # {} /\ s = Min(putOff))
  BY DEF ActionSource
<1> HIDE DEF putOff
<1> QED BY <1>1, <1>4, <1>5, <1>7, <1>8

LEMMA CardsType ==
    ASSUME TabTypeOK, NEW card \in Cards
    PROVE  /\ card.min \in 0..MaxMin /\ card.min # None
           /\ card.aircraft \in Peer
           /\ CardFor(card)
<1>1. PICK d \in Dialogues : \E s \in ActionSource(d) :
          card = [source |-> s, aircraft |-> rows[s].peer, min |-> rows[s].min,
                  intents |-> Intents(s, d)]
  BY DEF Cards
<1>2. PICK s \in ActionSource(d) :
          card = [source |-> s, aircraft |-> rows[s].peer, min |-> rows[s].min,
                  intents |-> Intents(s, d)]
  BY <1>1
<1>3. s \in Candidates
  BY ActionSourceIn
<1>4. s \in DOMAIN rows /\ rows[s].min # None
  BY <1>3, CandidatesIn
<1>5. card.min = rows[s].min /\ card.aircraft = rows[s].peer
  BY <1>2
<1> QED BY <1>4, <1>5, RowAt DEF CardFor

LEMMA FlightAtType ==
    ASSUME NEW idx
    PROVE  FlightAt(idx) \in Aircraft \cup {None}
BY DEF FlightAt, Linked

LEMMA ComposeFlightType == ComposeFlight \in Aircraft \cup {None}
BY FlightAtType DEF ComposeFlight, Linked

LEMMA BuiltType ==
    ASSUME AtcTypeOK
    PROVE  Built \in Seq(Element)
<1>1. << >> \in Seq(Element) /\ \A e \in Element : <<e>> \in Seq(Element)
  OBVIOUS
<1>2. atc.command # NoCommand => atc.command \in Element
  BY Elements DEF AtcTypeOK
<1> QED BY <1>1, <1>2 DEF Built

LEMMA AimedType ==
    ASSUME TabTypeOK, AtcTypeOK, NEW card \in Cards
    PROVE  Aimed(card) \in [selected : 0..Cardinality(Aircraft),
                            command : Templates \cup {NoCommand}, filled : BOOLEAN,
                            elements : Seq(Element), mrn : 0..MaxMin,
                            target : Peer \cup {None}]
<1>1. card.min \in 0..MaxMin /\ card.aircraft \in Peer \cup {None}
  BY CardsType
<1>2. Place(card.aircraft, Linked) \in 0..Cardinality(Aircraft)
  BY PlaceType, LinkedFinite
<1> QED BY <1>1, <1>2 DEF Aimed, AtcTypeOK

LEMMA TrafficType ==
    ASSUME TabTypeOK, AtcTypeOK, NEW p \in Aircraft,
           \/ SelectFlight(p)
           \/ \E phase \in Phases \cup {"None"} : UpdateFlight(p, phase)
           \/ \E accept \in BOOLEAN : AnswerLogon(p, accept)
    PROVE  TabTypeOK' /\ RowsGrow /\ AtcTypeOK'
<1>1. p \in Peer
  BY Peers
<1>2. CASE SelectFlight(p)
  <2>1. Place(p, Linked) \in 0..Cardinality(Aircraft) /\ 0 \in 0..Cardinality(Aircraft)
    BY PlaceType, LinkedFinite
  <2>2. AtcTypeOK'
    BY <1>2, <2>1 DEF SelectFlight, AtcTypeOK
  <2> QED BY <1>2, <2>2, UnchangedTab DEF SelectFlight
<1>3. ASSUME NEW phase \in Phases \cup {"None"}, UpdateFlight(p, phase)
      PROVE  TabTypeOK' /\ RowsGrow /\ AtcTypeOK'
  <2>1. 0 \in 0..Cardinality(Aircraft)
    BY LinkedFinite
  <2>2. AtcTypeOK'
    BY <1>3, <2>1 DEF UpdateFlight, AtcTypeOK
  <2>3. flights' \in [Peer -> Phases \cup {"None"}]
    BY <1>1, <1>3 DEF UpdateFlight, TabTypeOK
  <2> QED BY <1>3, <2>2, <2>3, UnchangedRows DEF UpdateFlight, environment, TabTypeOK
<1>4. ASSUME NEW accept \in BOOLEAN, AnswerLogon(p, accept)
      PROVE  TabTypeOK' /\ RowsGrow /\ AtcTypeOK'
  <2> DEFINE answer == Meta("logonResponse", p)
             request == Meta("connectionRequest", p)
  <2>1. answer \in Sent /\ request \in Sent
    BY <1>1, MetaType DEF MetaKind
  <2>2. sent' \in Seq(Sent) /\ mins' \in [Peer -> MIN]
    <3>1. CASE accept
      <4>1. PublishAndStartOver(<<answer, request>>, p)
        BY <1>4, <3>1 DEF AnswerLogon
      <4> HIDE DEF answer, request
      <4>2. \A m, n \in Sent : <<m, n>> \in Seq(Sent)
        OBVIOUS
      <4>3. <<answer, request>> \in Seq(Sent)
        BY <2>1, <4>2
      <4> QED BY <1>1, <4>1, <4>3, StartOverType
    <3>2. CASE ~accept
      <4>1. sent' = Append(sent, answer) /\ UNCHANGED mins
        BY <1>4, <3>2 DEF AnswerLogon
      <4> HIDE DEF answer
      <4> QED BY <2>1, <4>1 DEF TabTypeOK
    <3> QED BY <3>1, <3>2
  <2>3. rows' \in Seq(Rows) /\ RowsGrow
    <3>1. Row(TRUE, p, None, None, << >>) \in Rows
      BY <1>1, MetaRowType
    <3> QED BY <1>4, <3>1, AppendedRow, SameRows DEF AnswerLogon, TabTypeOK
  <2> QED BY <1>4, <2>2, <2>3 DEF AnswerLogon, environment, TabTypeOK, AtcTypeOK
<1> QED BY <1>2, <1>3, <1>4

(* An answer from the queue marks the request at most.                     *)
LEMMA AnswerMarks ==
    ASSUME TabTypeOK, NEW card, NEW intent
    PROVE  LET answered == {i \in DOMAIN rows : ~rows[i].out /\ rows[i].min = card.min
                                                 /\ rows[i].peer = card.aircraft}
               marked == IF intent = "Standby" \/ answered = {} THEN rows
                         ELSE [rows EXCEPT ![Min(answered)].responded = TRUE]
           IN  marked \in Seq(Rows) /\ SameMessages(marked, rows)
<1> DEFINE answered == {i \in DOMAIN rows : ~rows[i].out /\ rows[i].min = card.min
                                             /\ rows[i].peer = card.aircraft}
           marked == IF intent = "Standby" \/ answered = {} THEN rows
                     ELSE [rows EXCEPT ![Min(answered)].responded = TRUE]
<1> SUFFICES marked \in Seq(Rows) /\ SameMessages(marked, rows)
  OBVIOUS
<1>1. rows \in Seq(Rows) /\ SameMessages(rows, rows)
  BY SameRows DEF TabTypeOK
<1>2. CASE answered # {}
  <2>1. answered \subseteq Nat
    BY <1>1
  <2>2. Min(answered) \in answered
    <3> HIDE DEF answered
    <3>1. \E i \in answered : \A j \in answered : i <= j
      BY <1>2, <2>1, FirstExists
    <3> QED BY <3>1 DEF Min
  <2>3. Min(answered) \in DOMAIN rows
    BY <2>2
  <2> HIDE DEF answered
  <2> QED BY <1>1, <2>3, RespondedType
<1> QED BY <1>1, <1>2

LEMMA QuickResponseType ==
    ASSUME TabTypeOK, AtcTypeOK, NEW card \in Cards, NEW intent \in Intent,
           QuickResponse(card, intent)
    PROVE  TabTypeOK' /\ RowsGrow /\ AtcTypeOK'
<1> DEFINE answered == {i \in DOMAIN rows : ~rows[i].out /\ rows[i].min = card.min
                                             /\ rows[i].peer = card.aircraft}
           row == Row(TRUE, card.aircraft, mins[card.aircraft], card.min, <<UplinkId(intent)>>)
           marked == IF intent = "Standby" \/ answered = {} THEN rows
                     ELSE [rows EXCEPT ![Min(answered)].responded = TRUE]
<1>1. card.aircraft \in Peer /\ card.min \in 0..MaxMin
  <2>1. card.aircraft \in Linked
    BY DEF QuickResponse
  <2> QED BY <2>1, CardsType, Peers DEF Linked
<1>2. <<UplinkId(intent)>> \in Seq(Element)
  BY Elements
<1>3. sent' \in Seq(Sent) /\ mins' \in [Peer -> MIN]
  BY <1>1, <1>2, MessageType, PublishType DEF QuickResponse
<1>4. row \in Rows
  <2>1. mins[card.aircraft] \in 0..MaxMin
    BY <1>1, Numbers DEF TabTypeOK
  <2> QED BY <1>1, <1>2, <2>1, Peers, RowType
<1>5. marked \in Seq(Rows) /\ SameMessages(marked, rows)
  BY AnswerMarks
<1>6. rows' = Append(marked, row)
  BY DEF QuickResponse
<1>7. rows' \in Seq(Rows) /\ RowsGrow
  <2> HIDE DEF marked, row
  <2> QED BY <1>4, <1>5, <1>6, AppendedRow DEF TabTypeOK
<1> QED BY <1>3, <1>7 DEF QuickResponse, environment, TabTypeOK, AtcTypeOK

LEMMA CardType ==
    ASSUME TabTypeOK, AtcTypeOK, NEW card \in Cards,
           \/ OpenResponseComposer(card)
           \/ \E intent \in Intent : InjectResponse(card, intent)
    PROVE  TabTypeOK' /\ RowsGrow /\ AtcTypeOK'
<1>1. CASE OpenResponseComposer(card)
  BY <1>1, AimedType, UnchangedTab DEF OpenResponseComposer, AtcTypeOK
<1>2. ASSUME NEW intent \in Intent, InjectResponse(card, intent)
      PROVE  TabTypeOK' /\ RowsGrow /\ AtcTypeOK'
  <2>1. UplinkId(intent) \in Element
    BY Elements
  <2>2. Aimed(card).elements \in Seq(Element)
    BY AimedType
  <2>3. Append(Aimed(card).elements, UplinkId(intent)) \in Seq(Element)
    BY <2>1, <2>2
  <2>4. atc' = [Aimed(card) EXCEPT !.elements = Append(@, UplinkId(intent))]
    BY <1>2 DEF InjectResponse
  <2>5. AtcTypeOK'
    BY <2>3, <2>4, AimedType DEF AtcTypeOK
  <2> QED BY <1>2, <2>5, UnchangedTab DEF InjectResponse
<1> QED BY <1>1, <1>2

LEMMA SendComposedType ==
    ASSUME TabTypeOK, AtcTypeOK, NEW elements \in Seq(Element), SendComposed(elements)
    PROVE  TabTypeOK' /\ RowsGrow /\ AtcTypeOK'
<1>1. ComposeFlight \in Peer
  BY ComposeFlightType, Peers DEF SendComposed, Sendable, ComposerShown
<1>2. SendUplink(ComposeFlight, elements, atc.mrn)
  BY DEF SendComposed
<1>3. atc.mrn \in 0..MaxMin
  BY DEF AtcTypeOK
<1>4. TabTypeOK' /\ RowsGrow
  BY <1>1, <1>2, <1>3, SendUplinkType
<1>5. AtcTypeOK'
  BY Numbers, Elements DEF SendComposed, AtcTypeOK
<1> QED BY <1>4, <1>5

LEMMA ComposerType ==
    ASSUME TabTypeOK, AtcTypeOK,
           \/ \E u \in Templates : ChooseTemplate(u)
           \/ \E parse \in BOOLEAN : FillParameters(parse)
           \/ CancelTemplate \/ AddToMessage \/ ClearUplink
    PROVE  TabTypeOK' /\ RowsGrow /\ AtcTypeOK'
<1>1. UNCHANGED tabVars
  BY DEF ChooseTemplate, FillParameters, CancelTemplate, AddToMessage, ClearUplink
<1>2. AtcTypeOK'
  <2>1. ASSUME NEW u \in Templates, ChooseTemplate(u) PROVE AtcTypeOK'
    BY <2>1 DEF ChooseTemplate, AtcTypeOK
  <2>2. ASSUME NEW parse \in BOOLEAN, FillParameters(parse) PROVE AtcTypeOK'
    BY <2>2 DEF FillParameters, AtcTypeOK
  <2>3. CASE CancelTemplate
    BY <2>3 DEF CancelTemplate, AtcTypeOK
  <2>4. CASE AddToMessage
    <3>1. atc.elements \o Built \in Seq(Element)
      BY BuiltType DEF AtcTypeOK
    <3> QED BY <2>4, <3>1 DEF AddToMessage, AtcTypeOK
  <2>5. CASE ClearUplink
    BY <2>5, Numbers, Elements DEF ClearUplink, AtcTypeOK
  <2> QED BY <2>1, <2>2, <2>3, <2>4, <2>5
<1> QED BY <1>1, <1>2, UnchangedTab

LEMMA AtcStepType ==
    ASSUME TabTypeOK, AtcTypeOK, AtcStep
    PROVE  TabTypeOK' /\ RowsGrow /\ AtcTypeOK'
<1>1. atc.elements \in Seq(Element) /\ atc.elements \o Built \in Seq(Element)
  BY BuiltType DEF AtcTypeOK
<1> QED
  BY <1>1, TrafficType, QuickResponseType, CardType, SendComposedType, ComposerType
  DEF AtcStep

-----------------------------------------------------------------------------
(* Type correctness. *)

LEMMA InitType == Init => TypeOK
<1> SUFFICES ASSUME Init PROVE TypeOK
  OBVIOUS
<1>1. TabTypeOK
  BY Numbers, BoundsAssumption DEF Init, TabInit, TabTypeOK, Connection
<1>2. DcduTypeOK
  BY EmptyType DEF Init, DcduInit, DcduTypeOK
<1>3. A320TypeOK
  BY Numbers DEF Init, A320Init, A320TypeOK
<1>4. AtcTypeOK
  BY Numbers, Elements, LinkedFinite DEF Init, AtcInit, AtcTypeOK
<1> QED BY <1>1, <1>2, <1>3, <1>4 DEF TypeOK

LEMMA StepType ==
    ASSUME TypeOK, [Next]_vars
    PROVE  TypeOK' /\ RowsGrow
<1>1. CASE Listen /\ UNCHANGED <<dcdu, a320, atc>>
  BY <1>1, ListenType DEF TypeOK, DcduTypeOK, A320TypeOK, AtcTypeOK
<1>2. CASE DcduScreen
  BY <1>2, DcduStepType DEF DcduScreen, TypeOK, A320TypeOK, AtcTypeOK
<1>3. CASE A320Screen
  BY <1>3, A320StepType DEF A320Screen, TypeOK, DcduTypeOK, AtcTypeOK
<1>4. CASE AtcScreen
  BY <1>4, AtcStepType DEF AtcScreen, TypeOK, DcduTypeOK, A320TypeOK
<1>5. CASE UNCHANGED vars
  BY <1>5, UnchangedTab DEF vars, TypeOK, DcduTypeOK, A320TypeOK, AtcTypeOK
<1> QED BY <1>1, <1>2, <1>3, <1>4, <1>5 DEF Next

(* Every variable keeps its type.                                          *)
THEOREM TypeCorrect == Spec => []TypeOK
BY InitType, StepType, PTL DEF Spec

-----------------------------------------------------------------------------
(* The composer of the classic screen. *)

LEMMA CleanInit == Init => CompositionIsClean
BY DEF Init, DcduInit, Empty, CompositionIsClean

LEMMA CleanSteps ==
    ASSUME DcduTypeOK, CompositionIsClean, DcduStep
    PROVE  CompositionIsClean'
<1>1. ASSUME UNCHANGED dcdu PROVE CompositionIsClean'
  BY <1>1 DEF CompositionIsClean
<1>2. ASSUME dcdu' = Empty PROVE CompositionIsClean'
  BY <1>2 DEF Empty, CompositionIsClean
<1>3. ASSUME NEW i \in DOMAIN rows, RespondCompose(i) PROVE CompositionIsClean'
  BY <1>3 DEF RespondCompose, CompositionIsClean
<1>4. CASE Toggle
  BY <1>2, <1>4 DEF Toggle, CompositionIsClean, DcduTypeOK
<1>5. CASE ClearComposer
  BY <1>5 DEF ClearComposer, PopoverShown, CompositionIsClean, DcduTypeOK
<1>6. ASSUME NEW d \in Menu, Pick(d) PROVE CompositionIsClean'
  <2>1. dcdu.open /\ dcdu.pending = NoId
    BY <1>6 DEF Pick, MenuShown, PopoverShown
  <2>2. CASE Ask(d, HasQueue)
    BY <2>1, <2>2 DEF Ask, CompositionIsClean, DcduTypeOK
  <2>3. CASE ~HasQueue /\ dcdu' = [dcdu EXCEPT !.open = FALSE, !.filled = FALSE]
    BY <2>1, <2>3 DEF HasQueue, CompositionIsClean, DcduTypeOK
  <2> QED BY <1>2, <1>6, <2>2, <2>3 DEF Pick
<1>7. ASSUME NEW d \in Menu, Add(d) PROVE CompositionIsClean'
  BY <1>7 DEF Add, MenuShown, PopoverShown, CompositionIsClean, DcduTypeOK
<1>8. ASSUME NEW parses, Fill(parses) PROVE CompositionIsClean'
  BY <1>8 DEF Fill, PopoverShown, CompositionIsClean, DcduTypeOK
<1>9. CASE CancelParameters
  BY <1>9 DEF CancelParameters, PopoverShown, CompositionIsClean, DcduTypeOK
<1>10. CASE Submit
  <2>1. dcdu.open
    BY <1>10 DEF Submit, PopoverShown
  <2>2. CASE /\ dcdu.mode
             /\ dcdu' = [dcdu EXCEPT !.elements = Append(@, dcdu.pending),
                                     !.pending = NoId, !.filled = FALSE]
    BY <2>1, <2>2 DEF CompositionIsClean, DcduTypeOK
  <2>3. CASE /\ ~dcdu.mode
             /\ dcdu' = [dcdu EXCEPT !.open = FALSE, !.pending = NoId, !.filled = FALSE,
                                     !.sendAfter = FALSE]
    BY <2>1, <2>3 DEF CompositionIsClean, DcduTypeOK
  <2> QED BY <1>2, <1>10, <2>2, <2>3 DEF Submit
<1> QED
  BY <1>1, <1>2, <1>3, <1>4, <1>5, <1>6, <1>7, <1>8, <1>9, <1>10
  DEF DcduStep, Logon, CancelLogon, Respond, SendAll

(* No part of an earlier composition is in the next one.                   *)
THEOREM CompositionsAreClean == Spec => []CompositionIsClean
<1>1. TypeOK /\ CompositionIsClean /\ [Next]_vars => CompositionIsClean'
  <2> SUFFICES ASSUME TypeOK, CompositionIsClean, [Next]_vars
               PROVE  CompositionIsClean'
    OBVIOUS
  <2>1. CASE UNCHANGED dcdu
    BY <2>1 DEF CompositionIsClean
  <2>2. CASE DcduStep
    BY <2>2, CleanSteps DEF TypeOK
  <2> QED BY <2>1, <2>2 DEF Next, DcduScreen, A320Screen, AtcScreen, vars
<1> QED BY <1>1, CleanInit, TypeCorrect, PTL DEF Spec

-----------------------------------------------------------------------------
(* The draft of the A320 screen. *)

(* Whether a row is open never changes but by what a user sends.           *)
RowsAdded ==
    /\ Len(rows) <= Len(rows')
    /\ \A i \in DOMAIN rows : rows'[i] = rows[i]

LEMMA ListenAdds ==
    ASSUME TabTypeOK, Listen
    PROVE  RowsAdded
<1>1. ASSUME UNCHANGED rows PROVE RowsAdded
  BY <1>1 DEF RowsAdded, TabTypeOK
<1>2. ASSUME NEW row, rows' = Append(rows, row) PROVE RowsAdded
  BY <1>2 DEF RowsAdded, TabTypeOK
<1>3. ASSUME NEW row, NEW next, rows' = rows \o <<row, next>> PROVE RowsAdded
  BY <1>3 DEF RowsAdded, TabTypeOK
<1> QED
  BY <1>1, <1>2, <1>3
  DEF Listen, Receive, LogOnToUnit, StoreRow, ReceiveConnectionRequest, ReceiveLogon,
      ReceiveLogonForward, UpdateSession

DraftInv ==
    /\ a320.draftMrn # None => a320.draft # << >>
    /\ screen # "A320" => a320.draftMrn = None
    /\ DraftStaysOpen

LEMMA DraftInit == Init => DraftInv
BY DEF Init, A320Init, DraftInv, DraftStaysOpen

LEMMA DraftKept ==
    ASSUME TabTypeOK, DraftInv, RowsAdded, UNCHANGED <<a320, screen>>
    PROVE  DraftInv'
<1>1. \A i \in DOMAIN rows : i \in DOMAIN rows' /\ rows'[i] = rows[i]
  BY DEF RowsAdded, TabTypeOK
<1> QED BY <1>1 DEF DraftInv, DraftStaysOpen

LEMMA DraftSteps ==
    ASSUME TabTypeOK, A320TypeOK, DraftInv, screen = "A320", A320Step
    PROVE  DraftInv'
<1>1. UNCHANGED screen
  BY DEF A320Step, Press, SendDraft, Enter, Erase, Transfer, SendDownlink, tabVars
<1>2. ASSUME NEW intent \in Intent, Press(intent) PROVE DraftInv'
  <2>1. a320.draft = << >>
    BY <1>2, PressedRow
  <2>2. a320.draftMrn = None
    BY <2>1 DEF DraftInv
  <2>3. a320'.draftMrn = a320.draftMrn
    BY <1>2 DEF Press, A320TypeOK
  <2> QED BY <1>1, <2>2, <2>3 DEF DraftInv, DraftStaysOpen
<1>3. CASE SendDraft
  <2>1. a320'.draftMrn = None
    BY <1>3 DEF SendDraft, A320TypeOK
  <2> QED BY <1>1, <2>1 DEF DraftInv, DraftStaysOpen
<1>4. ASSUME UNCHANGED tabVars, a320'.draft = a320.draft, a320'.draftMrn = a320.draftMrn
      PROVE  DraftInv'
  BY <1>4 DEF tabVars, DraftInv, DraftStaysOpen
<1>5. CASE Transfer
  <2>1. a320'.draft # << >> /\ a320'.draftMrn = OpenMin /\ UNCHANGED rows
    BY <1>5 DEF Transfer, A320TypeOK, tabVars
  <2>2. OpenMin # None =>
            \E i \in DOMAIN rows :
                ~rows[i].out /\ ~rows[i].responded /\ rows[i].min = OpenMin
    BY ShownType DEF OpenMin
  <2> QED BY <1>1, <2>1, <2>2 DEF DraftInv, DraftStaysOpen
<1> QED
  BY <1>2, <1>3, <1>4, <1>5 DEF A320Step, Enter, Erase, A320TypeOK

(* What a waiting draft answers is still open.                             *)
THEOREM DraftsStayOpen == Spec => []DraftStaysOpen
<1>1. TypeOK /\ DraftInv /\ [Next]_vars => DraftInv'
  <2> SUFFICES ASSUME TypeOK, DraftInv, [Next]_vars PROVE DraftInv'
    OBVIOUS
  <2>1. CASE Listen /\ UNCHANGED a320
    <3>1. UNCHANGED screen
      BY <2>1
      DEF Listen, Receive, LogOnToUnit, StoreRow, ReceiveConnectionRequest, ReceiveLogon,
          ReceiveLogonForward, UpdateSession
    <3> QED BY <2>1, <3>1, ListenAdds, DraftKept DEF TypeOK
  <2>2. CASE A320Screen
    BY <2>2, DraftSteps DEF A320Screen, TypeOK
  <2>3. CASE screen # "A320" /\ UNCHANGED <<a320, screen>>
    BY <2>3 DEF DraftInv, DraftStaysOpen
  <2>4. ASSUME DcduScreen \/ AtcScreen PROVE screen # "A320" /\ UNCHANGED <<a320, screen>>
    BY <2>4
    DEF DcduScreen, DcduStep, Logon, CancelLogon, Respond, RespondCompose, Toggle,
        ClearComposer, SendAll, Pick, Add, Fill, CancelParameters, Submit, SendDownlink,
        AtcScreen, AtcStep, SelectFlight, UpdateFlight, AnswerLogon, OpenResponseComposer,
        QuickResponse, InjectResponse, ChooseTemplate, FillParameters, CancelTemplate,
        AddToMessage, SendComposed, SendUplink, ClearUplink, tabVars
  <2>5. CASE UNCHANGED vars
    BY <2>5 DEF vars, tabVars, DraftInv, DraftStaysOpen
  <2> QED BY <2>1, <2>2, <2>3, <2>4, <2>5 DEF Next
<1>2. DraftInv => DraftStaysOpen
  BY DEF DraftInv
<1> QED BY <1>1, <1>2, DraftInit, TypeCorrect, PTL DEF Spec

-----------------------------------------------------------------------------
(* The controller's selection and composition. *)

LEMMA SelectedSteps ==
    ASSUME AtcTypeOK, SelectedIsAFlight, AtcStep
    PROVE  SelectedIsAFlight'
<1>1. ASSUME UNCHANGED flights, atc'.selected = atc.selected PROVE SelectedIsAFlight'
  BY <1>1 DEF SelectedIsAFlight, Linked
<1>2. ASSUME NEW p, UNCHANGED flights, atc'.selected \in {0, atc.selected, Place(p, Linked)}
      PROVE  SelectedIsAFlight'
  <2>1. UNCHANGED Linked
    BY <1>2 DEF Linked
  <2>2. Place(p, Linked) <= Cardinality(Linked) /\ 0 <= Cardinality(Linked)
    BY PlaceType, LinkedFinite
  <2> QED BY <1>2, <2>1, <2>2 DEF SelectedIsAFlight
<1>3. ASSUME NEW p \in Aircraft, SelectFlight(p) PROVE SelectedIsAFlight'
  <2>1. UNCHANGED flights /\ atc'.selected \in {0, atc.selected, Place(p, Linked)}
    BY <1>3 DEF SelectFlight, tabVars, AtcTypeOK
  <2> QED BY <1>2, <2>1
<1>4. ASSUME NEW p \in Aircraft, NEW phase \in Phases \cup {"None"}, UpdateFlight(p, phase)
      PROVE  SelectedIsAFlight'
  <2>1. Linked' \subseteq Aircraft
    BY DEF Linked
  <2>2. Cardinality(Linked') \in Nat
    BY <2>1, PeerAssumption, FS_Subset, FS_CardinalityType
  <2>3. atc'.selected = IF atc.selected > Cardinality(Linked') THEN 0 ELSE atc.selected
    BY <1>4 DEF UpdateFlight, AtcTypeOK
  <2>4. atc.selected \in Nat
    BY LinkedFinite DEF AtcTypeOK
  <2> QED BY <2>2, <2>3, <2>4 DEF SelectedIsAFlight
<1>5. ASSUME NEW card, OpenResponseComposer(card) \/ \E i \in Intent : InjectResponse(card, i)
      PROVE  SelectedIsAFlight'
  <2>1. atc'.selected \in {atc.selected, Place(card.aircraft, Linked)}
    BY <1>5 DEF OpenResponseComposer, InjectResponse, Aimed, AtcTypeOK
  <2> QED BY <1>2, <1>5, <2>1 DEF OpenResponseComposer, InjectResponse, tabVars
<1> QED
  BY <1>1, <1>3, <1>4, <1>5
  DEF AtcStep, AnswerLogon, QuickResponse, ChooseTemplate, FillParameters, CancelTemplate,
      AddToMessage, SendComposed, SendUplink, ClearUplink, tabVars, AtcTypeOK

(* The selected place is in the traffic list.                              *)
THEOREM SelectionIsAFlight == Spec => []SelectedIsAFlight
<1>1. Init => SelectedIsAFlight
  BY LinkedFinite DEF Init, AtcInit, SelectedIsAFlight
<1>2. TypeOK /\ SelectedIsAFlight /\ [Next]_vars => SelectedIsAFlight'
  <2> SUFFICES ASSUME TypeOK, SelectedIsAFlight, [Next]_vars PROVE SelectedIsAFlight'
    OBVIOUS
  <2>1. CASE AtcScreen
    BY <2>1, SelectedSteps DEF AtcScreen, TypeOK
  <2>2. CASE UNCHANGED <<atc, flights>>
    BY <2>2 DEF SelectedIsAFlight, Linked
  <2>3. ASSUME Listen \/ DcduStep \/ A320Step PROVE UNCHANGED flights
    BY <2>3
    DEF Listen, Receive, LogOnToUnit, StoreRow, ReceiveConnectionRequest, ReceiveLogon,
        ReceiveLogonForward, UpdateSession, listener, DcduStep, Logon, CancelLogon,
        Respond, RespondCompose, Toggle, ClearComposer, SendAll, Pick, Add, Fill,
        CancelParameters, Submit, A320Step, Press, SendDraft, Enter, Erase, Transfer,
        SendDownlink, tabVars
  <2> QED BY <2>1, <2>2, <2>3 DEF Next, DcduScreen, A320Screen, vars, tabVars
<1> QED BY <1>1, <1>2, TypeCorrect, PTL DEF Spec

LEMMA ReplyKept ==
    ASSUME TabTypeOK, TabTypeOK', ReplyKeepsItsTarget, RowsGrow,
           atc'.mrn = atc.mrn, atc'.target = atc.target
    PROVE  ReplyKeepsItsTarget'
<1>1. \A i \in DOMAIN rows :
          i \in DOMAIN rows' /\ rows'[i].min = rows[i].min /\ rows'[i].peer = rows[i].peer
  BY DEF RowsGrow, SameMessage, TabTypeOK
<1> QED BY <1>1 DEF ReplyKeepsItsTarget

LEMMA ReplyAimed ==
    ASSUME TabTypeOK, NEW card \in Cards, UNCHANGED rows, atc'.mrn = card.min,
           atc'.target = card.aircraft
    PROVE  ReplyKeepsItsTarget'
<1>1. card.aircraft # None /\ card.min # None /\ CardFor(card)
  BY CardsType, Peers
<1> QED BY <1>1 DEF CardFor, ReplyKeepsItsTarget

LEMMA ReplySteps ==
    ASSUME TabTypeOK, TabTypeOK', AtcTypeOK, RowsGrow, ReplyKeepsItsTarget, AtcStep
    PROVE  ReplyKeepsItsTarget'
<1>1. ASSUME atc'.mrn = None, atc'.target = None PROVE ReplyKeepsItsTarget'
  BY <1>1 DEF ReplyKeepsItsTarget
<1>2. ASSUME NEW card \in Cards,
             OpenResponseComposer(card) \/ \E i \in Intent : InjectResponse(card, i)
      PROVE  ReplyKeepsItsTarget'
  BY <1>2, ReplyAimed DEF OpenResponseComposer, InjectResponse, Aimed, tabVars, AtcTypeOK
<1>3. ASSUME NEW elements, SendComposed(elements) PROVE ReplyKeepsItsTarget'
  BY <1>1, <1>3 DEF SendComposed, AtcTypeOK
<1>4. CASE ClearUplink
  BY <1>1, <1>4 DEF ClearUplink, AtcTypeOK
<1>5. ASSUME UNCHANGED <<atc>> \/ (atc'.mrn = atc.mrn /\ atc'.target = atc.target)
      PROVE  ReplyKeepsItsTarget'
  BY <1>5, ReplyKept
<1> QED
  BY <1>2, <1>3, <1>4, <1>5
  DEF AtcStep, SelectFlight, UpdateFlight, AnswerLogon, QuickResponse, ChooseTemplate,
      FillParameters, CancelTemplate, AddToMessage, AtcTypeOK

(* An answer under composition refers to a message of its target.          *)
THEOREM RepliesKeepTheirTarget == Spec => []ReplyKeepsItsTarget
<1>1. Init => ReplyKeepsItsTarget
  BY DEF Init, AtcInit, ReplyKeepsItsTarget
<1>2. TypeOK /\ ReplyKeepsItsTarget /\ [Next]_vars => ReplyKeepsItsTarget'
  <2> SUFFICES ASSUME TypeOK, ReplyKeepsItsTarget, [Next]_vars
               PROVE  ReplyKeepsItsTarget'
    OBVIOUS
  <2>1. TypeOK' /\ RowsGrow
    BY StepType
  <2>2. CASE AtcScreen
    BY <2>1, <2>2, ReplySteps DEF AtcScreen, TypeOK
  <2>3. CASE UNCHANGED atc
    BY <2>1, <2>3, ReplyKept DEF TypeOK
  <2> QED BY <2>2, <2>3 DEF Next, DcduScreen, A320Screen, vars
<1> QED BY <1>1, <1>2, TypeCorrect, PTL DEF Spec
-----------------------------------------------------------------------------
(* Acknowledgements. *)

(* Nothing new is an acknowledgement that was sent, or a message that      *)
(* calls for one.                                                          *)
SentQuietly ==
    /\ Len(sent) <= Len(sent')
    /\ \A i \in DOMAIN sent : sent'[i] = sent[i]
    /\ \A i \in DOMAIN sent' \ DOMAIN sent :
           sent'[i].kind = "app" => ~ContainsAck(sent'[i].elements)

QuietRow(r) == r.out \/ r.min = None \/ ContainsAck(r.elements)

ListedQuietly ==
    /\ RowsGrow
    /\ \A i \in DOMAIN rows' \ DOMAIN rows : QuietRow(rows'[i])

LEMMA CountedPlaces ==
    ASSUME TabTypeOK, NEW p, NEW min
    PROVE  /\ IsFiniteSet(AcksSent(p, min)) /\ IsFiniteSet(Received(p, min))
           /\ Cardinality(AcksSent(p, min)) \in Nat /\ Cardinality(Received(p, min)) \in Nat
           /\ Len(sent) + 1 \notin AcksSent(p, min) /\ Len(rows) + 1 \notin Received(p, min)
<1>1. AcksSent(p, min) \subseteq 1..Len(sent) /\ Received(p, min) \subseteq 1..Len(rows)
      /\ Len(sent) \in Nat /\ Len(rows) \in Nat
  BY DEF AcksSent, AppSent, Received, TabTypeOK
<1>2. \A n \in Nat : IsFiniteSet(1..n) /\ n + 1 \notin 1..n
  BY FS_Interval
<1>3. IsFiniteSet(AcksSent(p, min)) /\ IsFiniteSet(Received(p, min))
  BY <1>1, <1>2, FS_Subset
<1> QED BY <1>1, <1>2, <1>3, FS_CardinalityType

LEMMA QuietAcks ==
    ASSUME TabTypeOK, TabTypeOK', SentQuietly, NEW p, NEW min
    PROVE  AcksSent(p, min)' = AcksSent(p, min)
<1>1. \A i \in DOMAIN sent : i \in DOMAIN sent'
  BY DEF SentQuietly, TabTypeOK
<1> QED BY <1>1 DEF SentQuietly, AcksSent, AppSent

LEMMA QuietReceived ==
    ASSUME TabTypeOK, TabTypeOK', ListedQuietly, NEW p, NEW min \in MIN
    PROVE  Received(p, min)' = Received(p, min)
<1>1. \A i \in DOMAIN rows : i \in DOMAIN rows' /\ SameMessage(rows'[i], rows[i])
  BY DEF ListedQuietly, RowsGrow, TabTypeOK
<1>2. \A i \in DOMAIN rows' \ DOMAIN rows : i \notin Received(p, min)'
  BY Numbers DEF ListedQuietly, QuietRow, Received
<1>3. \A i \in DOMAIN rows : i \in Received(p, min)' <=> i \in Received(p, min)
  BY <1>1 DEF SameMessage, Received
<1>4. Received(p, min) \subseteq DOMAIN rows /\ Received(p, min)' \subseteq DOMAIN rows'
  BY DEF Received
<1> QED BY <1>1, <1>2, <1>3, <1>4

LEMMA QuietSteps ==
    ASSUME TabTypeOK, TabTypeOK', AcksMatch, SentQuietly, ListedQuietly,
           \A p \in Peer, min \in MIN : BusyWith(p, min)' <=> BusyWith(p, min)
    PROVE  AcksMatch'
BY QuietAcks, QuietReceived DEF AcksMatch

(* What users do. *)

LEMMA AckElements ==
    ASSUME NEW elements \in Seq(Element), NEW e
    PROVE  /\ ContainsAck(<<e>>) <=> e \in AckIds
           /\ ContainsAck(Append(elements, e)) <=> ContainsAck(elements) \/ e \in AckIds
<1>1. Ids(<<e>>) = {e} /\ Ids(Append(elements, e)) = Ids(elements) \cup {e}
  BY DEF Ids
<1> QED BY <1>1 DEF ContainsAck

LEMMA EmptyHasNoAck == ~ContainsAck(<< >>)
BY DEF ContainsAck, Ids

LEMMA AnswersAreNoAcks ==
    \A intent \in Intent : DownlinkId(intent) \notin AckIds /\ UplinkId(intent) \notin AckIds
BY DEF Intent, DownlinkId, UplinkId, AckIds, DM, UM

LEMMA QuietMessage ==
    ASSUME TabTypeOK, NEW to, NEW elements, NEW mrn, ~ContainsAck(elements),
           Publish(Message(to, elements, mrn))
    PROVE  SentQuietly
BY DEF SentQuietly, Publish, Message, TabTypeOK

LEMMA QuietMeta ==
    ASSUME TabTypeOK, NEW ms \in Seq(Sent), sent' = sent \o ms,
           \A i \in DOMAIN ms : ms[i].kind # "app"
    PROVE  SentQuietly
BY DEF SentQuietly, TabTypeOK

LEMMA QuietMetaMessage ==
    ASSUME TabTypeOK, NEW m \in Sent, m.kind # "app", sent' = sent \o <<m>>
    PROVE  SentQuietly
<1>1. <<m>> \in Seq(Sent) /\ \A i \in DOMAIN <<m>> : <<m>>[i] = m
  OBVIOUS
<1> QED BY <1>1, QuietMeta

LEMMA QuietDownlink ==
    ASSUME TabTypeOK, NEW to \in Peer \cup {None}, NEW elements \in Seq(Element),
           NEW mrn \in 0..MaxMin, ~ContainsAck(elements), SendDownlink(to, elements, mrn)
    PROVE  SentQuietly /\ ListedQuietly /\ UNCHANGED handling
<1> DEFINE row == Row(TRUE, None, None, mrn, elements)
           listed == Append(rows, row)
<1>1. RowsGrow
  BY SendDownlinkType
<1>2. row \in Rows /\ row.out
  BY Numbers, RowType DEF Row
<1>3. rows' = listed \/ rows' = MarkResponded(listed, mrn)
  BY DEF SendDownlink
<1>4. listed \in Seq(Rows) /\ Len(listed) = Len(rows) + 1 /\ Len(rows) \in Nat
      /\ listed[Len(rows) + 1].out
  <2> HIDE DEF row
  <2> QED BY <1>2 DEF TabTypeOK
<1> HIDE DEF listed
<1>5. rows' \in Seq(Rows) /\ SameMessages(rows', listed)
  <2>1. SameMessages(listed, listed)
    BY DEF SameMessages, SameMessage
  <2> QED BY <1>3, <1>4, <2>1, MarkRespondedType
<1>6. \A i \in DOMAIN rows' \ DOMAIN rows : rows'[i].out
  <2>1. \A i \in DOMAIN rows' \ DOMAIN rows : i = Len(rows) + 1 /\ i \in DOMAIN listed
    BY <1>4, <1>5 DEF SameMessages, TabTypeOK
  <2> QED BY <1>4, <1>5, <2>1 DEF SameMessages, SameMessage
<1>7. SentQuietly
  BY QuietMessage DEF SendDownlink
<1> QED BY <1>1, <1>6, <1>7 DEF ListedQuietly, QuietRow, SendDownlink

LEMMA QuietUplink ==
    ASSUME TabTypeOK, NEW to \in Peer, NEW elements \in Seq(Element),
           NEW mrn \in 0..MaxMin, ~ContainsAck(elements), SendUplink(to, elements, mrn)
    PROVE  SentQuietly /\ ListedQuietly /\ UNCHANGED handling
<1>1. RowsGrow
  BY SendUplinkType
<1>2. rows' = Append(rows, Row(TRUE, to, mins[to], mrn, elements))
  BY DEF SendUplink
<1>3. \A i \in DOMAIN rows' \ DOMAIN rows : rows'[i].out
  BY <1>2 DEF Row, TabTypeOK
<1>4. SentQuietly
  BY QuietMessage DEF SendUplink
<1> QED BY <1>1, <1>3, <1>4 DEF ListedQuietly, QuietRow, SendUplink

LEMMA QuietTab ==
    ASSUME TabTypeOK, UNCHANGED <<sent, rows>>
    PROVE  SentQuietly /\ ListedQuietly
BY DEF SentQuietly, ListedQuietly, RowsGrow, SameMessage, TabTypeOK

LEMMA QuietAppend ==
    ASSUME TabTypeOK, NEW row \in Rows, QuietRow(row), rows' = Append(rows, row)
    PROVE  ListedQuietly
<1>1. RowsGrow
  BY AppendedRow, SameRows DEF TabTypeOK
<1>2. \A i \in DOMAIN rows' \ DOMAIN rows : rows'[i] = row
  BY DEF TabTypeOK
<1> QED BY <1>1, <1>2 DEF ListedQuietly

(* Users do not pick acknowledgements.                                     *)
NoAcksByHand == (Menu \cup Templates) \cap AckIds = {}

LEMMA DcduAcks ==
    ASSUME NoAcksByHand, TabTypeOK, DcduTypeOK, ~ContainsAck(dcdu.elements), DcduStep
    PROVE  /\ SentQuietly /\ ListedQuietly /\ UNCHANGED handling
           /\ ~ContainsAck(dcdu'.elements)
<1> DEFINE Quiet == /\ SentQuietly /\ ListedQuietly /\ UNCHANGED handling
                    /\ ~ContainsAck(dcdu'.elements)
<1>1. ~ContainsAck(Empty.elements)
  BY EmptyHasNoAck DEF Empty
<1>2. dcdu.elements \in Seq(Element) /\ dcdu.mrn \in 0..MaxMin /\ None \in 0..MaxMin
  BY Numbers DEF DcduTypeOK
<1>3. ASSUME NEW d \in Menu
      PROVE  /\ ~ContainsAck(<<d>>) /\ ~ContainsAck(Append(dcdu.elements, d))
             /\ <<d>> \in Seq(Element) /\ Append(dcdu.elements, d) \in Seq(Element)
  <2>1. d \in Element /\ d \notin AckIds
    BY Elements DEF NoAcksByHand
  <2> QED BY <1>2, <2>1, AckElements
<1>4. ASSUME NEW elements \in Seq(Element), ~ContainsAck(elements), NEW mrn \in 0..MaxMin,
             SendDownlink(Station, elements, mrn)
      PROVE  SentQuietly /\ ListedQuietly /\ UNCHANGED handling
  BY <1>4, StationType, QuietDownlink
<1>5. ASSUME NEW p \in Stations, Logon(p) PROVE Quiet
  <2>1. Meta("logon", p) \in Sent /\ Meta("logon", p).kind # "app"
    BY Peers, MetaType DEF Meta, MetaKind
  <2>2. sent' = sent \o <<Meta("logon", p)>>
    BY <1>5 DEF Logon, PublishAndStartOver
  <2>3. SentQuietly
    BY <2>1, <2>2, QuietMetaMessage
  <2>4. QuietRow(Row(TRUE, None, None, None, << >>))
    BY DEF QuietRow, Row
  <2>5. ListedQuietly
    BY <1>5, <2>4, MetaRowType, QuietAppend DEF Logon
  <2> QED BY <1>5, <2>3, <2>5 DEF Logon
<1>6. CASE CancelLogon
  BY <1>6, QuietTab DEF CancelLogon
<1>7. ASSUME NEW i \in DOMAIN rows, NEW intent \in Intent, Respond(i, intent) PROVE Quiet
  <2>1. <<DownlinkId(intent)>> \in Seq(Element) /\ ~ContainsAck(<<DownlinkId(intent)>>)
    BY <1>2, Elements, AckElements, AnswersAreNoAcks
  <2>2. rows[i].min \in 0..MaxMin
    BY RowAt
  <2> QED BY <1>4, <1>7, <2>1, <2>2 DEF Respond
<1>8. ASSUME NEW i \in DOMAIN rows, RespondCompose(i) PROVE Quiet
  <2> DEFINE e == DownlinkId(FirstIntent(PilotIntents(rows[i].elements)))
  <2>1. e \notin AckIds
    BY <1>8, FirstIntentType, AnswersAreNoAcks DEF RespondCompose
  <2>2. dcdu'.elements = Append(dcdu.elements, e)
    BY <1>8 DEF RespondCompose
  <2> HIDE DEF e
  <2>3. ~ContainsAck(dcdu'.elements)
    <3>1. ContainsAck(Append(dcdu.elements, e)) <=> ContainsAck(dcdu.elements) \/ e \in AckIds
      BY <1>2, AckElements
    <3>2. ~ContainsAck(Append(dcdu.elements, e))
      BY <2>1, <3>1
    <3> QED BY <2>2, <3>2
  <2> QED BY <1>8, <2>3, QuietTab DEF RespondCompose, tabVars
<1>9. ASSUME UNCHANGED tabVars, ~ContainsAck(dcdu'.elements) PROVE Quiet
  BY <1>9, QuietTab DEF tabVars
<1>10. CASE Toggle
  <2>1. ~ContainsAck(dcdu'.elements)
    BY <1>1, <1>10 DEF Toggle, DcduTypeOK
  <2> QED BY <1>9, <1>10, <2>1 DEF Toggle
<1>11. CASE ClearComposer
  <2>1. ~ContainsAck(dcdu'.elements)
    BY <1>11, EmptyHasNoAck DEF ClearComposer, DcduTypeOK
  <2> QED BY <1>9, <1>11, <2>1 DEF ClearComposer
<1>12. CASE SendAll
  BY <1>1, <1>2, <1>4, <1>12 DEF SendAll
<1>13. ASSUME NEW d \in Menu, Pick(d) PROVE Quiet
  <2>1. CASE Ask(d, HasQueue) /\ UNCHANGED tabVars
    BY <1>9, <2>1 DEF Ask, DcduTypeOK
  <2>2. CASE SendDownlink(Station, Append(dcdu.elements, d), dcdu.mrn) /\ dcdu' = Empty
    BY <1>1, <1>2, <1>3, <1>4, <2>2
  <2>3. CASE /\ SendDownlink(Station, <<d>>, None)
             /\ dcdu' = [dcdu EXCEPT !.open = FALSE, !.filled = FALSE]
    BY <1>2, <1>3, <1>4, <2>3 DEF DcduTypeOK
  <2> QED BY <1>13, <2>1, <2>2, <2>3 DEF Pick
<1>14. ASSUME NEW d \in Menu, Add(d) PROVE Quiet
  <2>1. dcdu'.elements \in {dcdu.elements, Append(dcdu.elements, d)}
    BY <1>14 DEF Add, DcduTypeOK
  <2> QED BY <1>3, <1>9, <1>14, <2>1 DEF Add
<1>15. ASSUME NEW parses, Fill(parses) PROVE Quiet
  BY <1>9, <1>15 DEF Fill, DcduTypeOK
<1>16. CASE CancelParameters
  BY <1>9, <1>16 DEF CancelParameters, DcduTypeOK
<1>17. CASE Submit
  <2>1. dcdu.pending \in Menu
    BY <1>17 DEF Submit, DcduTypeOK
  <2>2. CASE /\ SendDownlink(Station, Append(dcdu.elements, dcdu.pending), dcdu.mrn)
             /\ dcdu' = Empty
    BY <1>1, <1>2, <1>3, <1>4, <2>1, <2>2
  <2>3. CASE /\ dcdu' = [dcdu EXCEPT !.elements = Append(@, dcdu.pending),
                                     !.pending = NoId, !.filled = FALSE]
             /\ UNCHANGED tabVars
    <3>1. dcdu'.elements = Append(dcdu.elements, dcdu.pending)
      BY <2>3 DEF DcduTypeOK
    <3> QED BY <1>3, <1>9, <2>1, <2>3, <3>1
  <2>4. CASE /\ SendDownlink(Station, <<dcdu.pending>>, None)
             /\ dcdu' = [dcdu EXCEPT !.open = FALSE, !.pending = NoId, !.filled = FALSE,
                                     !.sendAfter = FALSE]
    BY <1>2, <1>3, <1>4, <2>1, <2>4 DEF DcduTypeOK
  <2> QED BY <1>17, <2>2, <2>3, <2>4 DEF Submit
<1> QED
  BY <1>5, <1>6, <1>7, <1>8, <1>10, <1>11, <1>12, <1>13, <1>14, <1>15, <1>16, <1>17
  DEF DcduStep

LEMMA A320Acks ==
    ASSUME NoAcksByHand, TabTypeOK, A320TypeOK, A320Step
    PROVE  SentQuietly /\ ListedQuietly /\ UNCHANGED handling
<1>1. ASSUME NEW intent \in Intent, Press(intent)
      PROVE  SentQuietly /\ ListedQuietly /\ UNCHANGED handling
  <2>1. << >> \in Seq(Element) /\ <<DownlinkId(intent)>> \in Seq(Element)
    BY Elements
  <2>2. ~ContainsAck(<<DownlinkId(intent)>>)
    BY <2>1, AckElements, AnswersAreNoAcks
  <2>3. rows[Shown].min \in 0..MaxMin
    BY <1>1, PressedRow, RowAt
  <2>4. SendDownlink(Correspondent, <<DownlinkId(intent)>>, rows[Shown].min)
    BY <1>1 DEF Press
  <2> QED BY <2>1, <2>2, <2>3, <2>4, CorrespondentType, QuietDownlink
<1>2. CASE SendDraft
  <2>1. a320.draft \in Seq(Menu) /\ a320.draftMrn \in 0..MaxMin /\ Menu \subseteq Element
    BY Elements DEF A320TypeOK
  <2>2. a320.draft \in Seq(Element)
    BY <2>1
  <2>3. ~ContainsAck(a320.draft)
    BY <2>1 DEF NoAcksByHand, ContainsAck, Ids
  <2>4. SendDownlink(Correspondent, a320.draft, a320.draftMrn)
    BY <1>2 DEF SendDraft
  <2> QED BY <2>1, <2>2, <2>3, <2>4, CorrespondentType, QuietDownlink
<1> QED
  BY <1>1, <1>2, QuietTab DEF A320Step, Enter, Erase, Transfer, tabVars

LEMMA QuietAnswer ==
    ASSUME TabTypeOK, AtcTypeOK, NEW card \in Cards, NEW intent \in Intent,
           QuickResponse(card, intent)
    PROVE  SentQuietly /\ ListedQuietly /\ UNCHANGED handling
<1> DEFINE answered == {i \in DOMAIN rows : ~rows[i].out /\ rows[i].min = card.min
                                             /\ rows[i].peer = card.aircraft}
           row == Row(TRUE, card.aircraft, mins[card.aircraft], card.min, <<UplinkId(intent)>>)
           marked == IF intent = "Standby" \/ answered = {} THEN rows
                     ELSE [rows EXCEPT ![Min(answered)].responded = TRUE]
<1>1. RowsGrow
  BY QuickResponseType
<1>2. marked \in Seq(Rows) /\ Len(marked) = Len(rows)
  BY AnswerMarks DEF SameMessages
<1>3. rows' = Append(marked, row) /\ row.out
  BY DEF QuickResponse, Row
<1> HIDE DEF marked, row
<1>4. \A i \in DOMAIN rows' \ DOMAIN rows : rows'[i] = row
  BY <1>2, <1>3 DEF TabTypeOK
<1>5. ~ContainsAck(<<UplinkId(intent)>>)
  <2>1. << >> \in Seq(Element)
    BY Elements
  <2> QED BY <2>1, AckElements, AnswersAreNoAcks
<1>6. SentQuietly
  BY <1>5, QuietMessage DEF QuickResponse
<1> QED BY <1>1, <1>3, <1>4, <1>6 DEF ListedQuietly, QuietRow, QuickResponse

LEMMA QuietLogonAnswer ==
    ASSUME TabTypeOK, NEW p \in Aircraft, NEW accept \in BOOLEAN, AnswerLogon(p, accept)
    PROVE  SentQuietly /\ ListedQuietly /\ UNCHANGED handling
<1> DEFINE answer == Meta("logonResponse", p)
           request == Meta("connectionRequest", p)
<1>1. /\ p \in Peer /\ answer \in Sent /\ request \in Sent
      /\ answer.kind # "app" /\ request.kind # "app"
  BY Peers, MetaType DEF Meta, MetaKind
<1>2. SentQuietly
  <2>1. sent' = IF accept THEN sent \o <<answer, request>> ELSE Append(sent, answer)
    BY DEF AnswerLogon, PublishAndStartOver
  <2> HIDE DEF answer, request
  <2>2. CASE accept
    <3>1. \A m, n \in Sent : <<m, n>> \in Seq(Sent)
      OBVIOUS
    <3>2. <<answer, request>> \in Seq(Sent)
      BY <1>1, <3>1
    <3>3. \A i \in DOMAIN <<answer, request>> : <<answer, request>>[i] \in {answer, request}
      OBVIOUS
    <3> HIDE DEF answer, request
    <3>4. \A i \in DOMAIN <<answer, request>> : <<answer, request>>[i].kind # "app"
      BY <1>1, <3>3
    <3> QED BY <2>1, <2>2, <3>2, <3>4, QuietMeta
  <2>3. CASE ~accept
    BY <1>1, <2>1, <2>3 DEF SentQuietly, TabTypeOK
  <2> QED BY <2>2, <2>3
<1>3. ListedQuietly
  <2>1. Row(TRUE, p, None, None, << >>) \in Rows /\ QuietRow(Row(TRUE, p, None, None, << >>))
    BY <1>1, MetaRowType DEF QuietRow, Row
  <2> QED BY <2>1, QuietAppend DEF AnswerLogon
<1> QED BY <1>2, <1>3 DEF AnswerLogon

LEMMA AtcAcks ==
    ASSUME NoAcksByHand, TabTypeOK, AtcTypeOK, ~ContainsAck(atc.elements), AtcStep
    PROVE  /\ SentQuietly /\ ListedQuietly /\ UNCHANGED handling
           /\ ~ContainsAck(atc'.elements)
<1> DEFINE Quiet == /\ SentQuietly /\ ListedQuietly /\ UNCHANGED handling
                    /\ ~ContainsAck(atc'.elements)
<1>1. atc.elements \in Seq(Element)
  BY DEF AtcTypeOK
<1>2. atc.elements \o Built \in Seq(Element) /\ ~ContainsAck(atc.elements \o Built)
  <2>1. Built = << >> \/ (Built = <<atc.command>> /\ atc.command \in Templates)
    BY DEF Built, AtcTypeOK
  <2>2. CASE Built = << >>
    <3>1. atc.elements \o Built = atc.elements
      BY <1>1, <2>2
    <3> QED BY <1>1, <3>1
  <2>3. CASE Built = <<atc.command>> /\ atc.command \in Templates
    <3>1. atc.command \in Element /\ atc.command \notin AckIds
      BY <2>3, Elements DEF NoAcksByHand
    <3>2. atc.elements \o Built = Append(atc.elements, atc.command)
      BY <1>1, <2>3
    <3>3. ContainsAck(Append(atc.elements, atc.command))
            <=> ContainsAck(atc.elements) \/ atc.command \in AckIds
      BY <1>1, AckElements
    <3>4. ~ContainsAck(atc.elements \o Built)
      BY <3>1, <3>2, <3>3
    <3> QED BY <1>1, <3>4, BuiltType
  <2> QED BY <2>1, <2>2, <2>3
<1>3. ASSUME UNCHANGED <<sent, rows, handling>>, atc'.elements = atc.elements PROVE Quiet
  BY <1>3, QuietTab
<1>4. ASSUME NEW p \in Aircraft, NEW accept \in BOOLEAN, AnswerLogon(p, accept) PROVE Quiet
  BY <1>4, QuietLogonAnswer DEF AnswerLogon
<1>5. ASSUME NEW card \in Cards, NEW intent \in Intent, QuickResponse(card, intent)
      PROVE  Quiet
  BY <1>5, QuietAnswer DEF QuickResponse
<1>6. ASSUME NEW card \in Cards, NEW intent \in Intent, InjectResponse(card, intent)
      PROVE  Quiet
  <2>1. Aimed(card).elements = atc.elements
    BY DEF Aimed, AtcTypeOK
  <2>2. Aimed(card) \in [selected : 0..Cardinality(Aircraft),
                         command : Templates \cup {NoCommand}, filled : BOOLEAN,
                         elements : Seq(Element), mrn : 0..MaxMin,
                         target : Peer \cup {None}]
    BY AimedType
  <2>3. atc'.elements = Append(atc.elements, UplinkId(intent))
    BY <1>6, <2>1, <2>2 DEF InjectResponse
  <2>4. UplinkId(intent) \notin AckIds
    BY AnswersAreNoAcks
  <2>5. ~ContainsAck(atc'.elements)
    <3>1. ContainsAck(Append(atc.elements, UplinkId(intent)))
            <=> ContainsAck(atc.elements) \/ UplinkId(intent) \in AckIds
      BY <1>1, AckElements
    <3> QED BY <2>3, <2>4, <3>1
  <2> QED BY <1>6, <2>5, QuietTab DEF InjectResponse, tabVars
<1>7. CASE AddToMessage
  <2>1. atc'.elements = atc.elements \o Built
    BY <1>7 DEF AddToMessage, AtcTypeOK
  <2> QED BY <1>2, <1>7, <2>1, QuietTab DEF AddToMessage, tabVars
<1>8. ASSUME NEW elements \in Seq(Element), ~ContainsAck(elements), SendComposed(elements)
      PROVE  Quiet
  <2>1. ComposeFlight \in Peer
    BY <1>8, ComposeFlightType, Peers DEF SendComposed, Sendable, ComposerShown
  <2>2. SendUplink(ComposeFlight, elements, atc.mrn) /\ atc.mrn \in 0..MaxMin
    BY <1>8 DEF SendComposed, AtcTypeOK
  <2>3. ~ContainsAck(atc'.elements)
    BY <1>8, EmptyHasNoAck DEF SendComposed, AtcTypeOK
  <2> QED BY <1>8, <2>1, <2>2, <2>3, QuietUplink
<1>9. CASE ClearUplink
  BY <1>9, EmptyHasNoAck, QuietTab DEF ClearUplink, tabVars, AtcTypeOK
<1>10. ASSUME NEW card, OpenResponseComposer(card) PROVE Quiet
  BY <1>3, <1>10 DEF OpenResponseComposer, Aimed, tabVars, AtcTypeOK
<1> QED
  BY <1>1, <1>2, <1>3, <1>4, <1>5, <1>6, <1>7, <1>8, <1>9, <1>10
  DEF AtcStep, SelectFlight, UpdateFlight, ChooseTemplate, FillParameters, CancelTemplate,
      tabVars, AtcTypeOK

(* What the listener does. *)

BusyCount(p, min) == IF BusyWith(p, min) THEN 1 ELSE 0

LEMMA ReceiveAcks ==
    ASSUME TabTypeOK, TabTypeOK', RowsGrow, AcksMatch, NEW p \in Others,
           NEW elements, NEW mrn, NEW unit, Receive(p, elements, mrn, unit)
    PROVE  AcksMatch' /\ (handling' # Idle => ~ContainsAck(handling'.elements))
<1> DEFINE min == peerMins[p]
           ack == <<IF Pilot THEN DM(100) ELSE UM(227)>>
<1>1. p \in Peer /\ min \in MIN /\ min > 0 /\ handling = Idle
  BY Peers, BoundsAssumption DEF TabTypeOK, Receive, Arrive, MIN
<1>2. CASE ShouldAck(elements, min)
  <2>1. ~ContainsAck(elements) /\ UNCHANGED rows
    BY <1>2 DEF ShouldAck, Receive
  <2>2. /\ handling' # Idle /\ handling'.from = p /\ handling'.min = min
        /\ handling'.elements = elements
    BY <1>2, SMTT(30) DEF Receive, Idle
  <2>3. sent' = Append(sent, Message(p, ack, min))
    BY <1>2 DEF Receive, Publish
  <2>4. ContainsAck(ack)
    BY DEF ContainsAck, Ids, AckIds
  <2> HIDE DEF ack
  <2>5. ASSUME NEW q \in Peer, NEW n \in MIN
        PROVE  Cardinality(AcksSent(q, n))' = Cardinality(Received(q, n))' + BusyCount(q, n)'
    <3>1. Received(q, n)' = Received(q, n)
      BY <2>1 DEF Received
    <3>2. ~BusyWith(q, n) /\ (BusyWith(q, n)' <=> q = p /\ n = min)
      BY <1>1, <2>2 DEF BusyWith
    <3>3. AcksSent(q, n)' = IF q = p /\ n = min THEN AcksSent(q, n) \cup {Len(sent) + 1}
                                                ELSE AcksSent(q, n)
      BY <2>3, <2>4 DEF AcksSent, AppSent, Message, TabTypeOK
    <3>4. /\ IsFiniteSet(AcksSent(q, n)) /\ Len(sent) + 1 \notin AcksSent(q, n)
          /\ Cardinality(AcksSent(q, n)) \in Nat /\ Cardinality(Received(q, n)) \in Nat
      BY CountedPlaces
    <3>5. Cardinality(AcksSent(q, n)) = Cardinality(Received(q, n))
      BY <3>2, <3>4 DEF AcksMatch
    <3>6. Cardinality(AcksSent(q, n) \cup {Len(sent) + 1}) = Cardinality(AcksSent(q, n)) + 1
      BY <3>4, FS_AddElement
    <3> QED BY <3>1, <3>2, <3>3, <3>4, <3>5, <3>6 DEF BusyCount
  <2> QED BY <2>1, <2>2, <2>5 DEF AcksMatch, BusyCount
<1>3. CASE ~ShouldAck(elements, min)
  <2>1. ContainsAck(elements)
    BY <1>1, <1>3 DEF ShouldAck
  <2>2. rows' = Append(rows, Row(FALSE, p, min, mrn, elements))
        /\ UNCHANGED <<handling, sent>>
    BY <1>3 DEF Receive
  <2>3. \A i \in DOMAIN rows' \ DOMAIN rows : ContainsAck(rows'[i].elements)
    BY <2>1, <2>2 DEF Row, TabTypeOK
  <2>4. SentQuietly /\ ListedQuietly
    <3>1. SentQuietly
      BY <2>2 DEF SentQuietly, TabTypeOK
    <3> QED BY <2>3, <3>1 DEF ListedQuietly, QuietRow
  <2>5. AcksMatch'
    BY <2>2, <2>4, QuietSteps DEF BusyWith
  <2> QED BY <1>1, <2>2, <2>5
<1> QED BY <1>2, <1>3

LEMMA StoreRowAcks ==
    ASSUME TabTypeOK, TabTypeOK', AcksMatch, ~ContainsAck(handling.elements), StoreRow
    PROVE  AcksMatch'
<1>1. handling \in Busy /\ handling # Idle
  BY DEF StoreRow, TabTypeOK, Idle
<1>2. rows' = Append(rows, Row(FALSE, handling.from, handling.min, handling.mrn,
                               handling.elements))
      /\ handling' = Idle /\ UNCHANGED sent
  BY DEF StoreRow
<1>3. ASSUME NEW q \in Peer, NEW n \in MIN
      PROVE  Cardinality(AcksSent(q, n))' = Cardinality(Received(q, n))' + BusyCount(q, n)'
  <2>1. AcksSent(q, n)' = AcksSent(q, n)
    BY <1>2 DEF AcksSent, AppSent
  <2>2. ~BusyWith(q, n)' /\ (BusyWith(q, n) <=> handling.from = q /\ handling.min = n)
    BY <1>1, <1>2 DEF BusyWith
  <2>3. Received(q, n)' = IF handling.from = q /\ handling.min = n
                          THEN Received(q, n) \cup {Len(rows) + 1} ELSE Received(q, n)
    BY <1>2 DEF Received, Row, TabTypeOK
  <2>4. /\ IsFiniteSet(Received(q, n)) /\ Len(rows) + 1 \notin Received(q, n)
        /\ Cardinality(AcksSent(q, n)) \in Nat /\ Cardinality(Received(q, n)) \in Nat
    BY CountedPlaces
  <2>5. Cardinality(Received(q, n) \cup {Len(rows) + 1}) = Cardinality(Received(q, n)) + 1
    BY <2>4, FS_AddElement
  <2>6. Cardinality(AcksSent(q, n)) = Cardinality(Received(q, n)) + BusyCount(q, n)
    BY DEF AcksMatch, BusyCount
  <2> QED BY <2>1, <2>2, <2>3, <2>4, <2>5, <2>6 DEF BusyCount
<1> QED BY <1>3 DEF AcksMatch, BusyCount

LEMMA ListenAcks ==
    ASSUME TabTypeOK, TabTypeOK', RowsGrow, AcksMatch, Listen,
           handling # Idle => ~ContainsAck(handling.elements)
    PROVE  AcksMatch' /\ (handling' # Idle => ~ContainsAck(handling'.elements))
<1> DEFINE Goal == AcksMatch' /\ (handling' # Idle => ~ContainsAck(handling'.elements))
<1>1. CASE StoreRow
  BY <1>1, StoreRowAcks DEF StoreRow, Idle
<1>2. ASSUME SentQuietly, ListedQuietly, UNCHANGED handling PROVE Goal
  BY <1>2, QuietSteps DEF BusyWith
<1>3. CASE LogOnToUnit
  <2>1. handling \in Busy /\ handling # Idle
    BY <1>3 DEF LogOnToUnit, TabTypeOK, Idle
  <2>2. /\ handling' # Idle /\ handling'.from = handling.from /\ handling'.min = handling.min
        /\ handling'.elements = handling.elements
    BY <1>3, <2>1 DEF LogOnToUnit, Busy, Idle
  <2>3. Meta("logon", handling.unit) \in Sent /\ Meta("logon", handling.unit).kind # "app"
    BY <2>1, MetaType DEF Busy, MetaKind, Meta
  <2>4. SentQuietly
    BY <1>3, <2>3, QuietMetaMessage DEF LogOnToUnit, PublishAndStartOver
  <2>5. QuietRow(Row(TRUE, None, None, None, << >>))
    BY DEF QuietRow, Row
  <2>6. ListedQuietly
    BY <1>3, <2>5, MetaRowType, QuietAppend DEF LogOnToUnit
  <2>7. AcksMatch'
    BY <2>1, <2>2, <2>4, <2>6, QuietSteps DEF BusyWith
  <2> QED BY <2>1, <2>2, <2>7
<1>4. ASSUME NEW p \in Others, ReceiveConnectionRequest(p) PROVE Goal
  <2>1. sent' = Append(sent, Meta("connectionResponse", p)) /\ UNCHANGED <<rows, handling>>
    BY <1>4 DEF ReceiveConnectionRequest, listener
  <2>2. SentQuietly
    BY <2>1 DEF SentQuietly, Meta, TabTypeOK
  <2> QED BY <1>2, <2>1, <2>2, QuietTab DEF ListedQuietly, TabTypeOK
<1>5. ASSUME NEW p \in Others, ReceiveLogon(p) PROVE Goal
  <2>1. UNCHANGED <<sent, handling>>
    BY <1>5 DEF ReceiveLogon, listener
  <2>2. Row(FALSE, p, None, None, << >>) \in Rows /\ QuietRow(Row(FALSE, p, None, None, << >>))
    BY Peers, MetaRowType DEF QuietRow, Row
  <2>3. ListedQuietly
    BY <1>5, <2>2, QuietAppend DEF ReceiveLogon
  <2> QED BY <1>2, <2>1, <2>3 DEF SentQuietly, TabTypeOK
<1>6. ASSUME NEW p \in Others, ReceiveLogonForward(p) PROVE Goal
  <2> DEFINE first == Row(TRUE, None, None, None, << >>)
             second == Row(FALSE, None, None, None, << >>)
  <2>1. rows' = rows \o <<first, second>> /\ UNCHANGED handling
    BY <1>6 DEF ReceiveLogonForward, listener
  <2>2. QuietRow(first) /\ QuietRow(second)
    BY DEF QuietRow, Row
  <2> HIDE DEF first, second
  <2>3. \A i \in DOMAIN rows' \ DOMAIN rows : rows'[i] \in {first, second}
    BY <2>1 DEF TabTypeOK
  <2>4. ListedQuietly
    BY <2>2, <2>3 DEF ListedQuietly
  <2>5. Meta("connectionRequest", p) \in Sent /\ Meta("connectionRequest", p).kind # "app"
    BY Peers, MetaType DEF MetaKind, Meta
  <2>6. SentQuietly
    BY <1>6, <2>5, QuietMetaMessage DEF ReceiveLogonForward, PublishAndStartOver
  <2> QED BY <1>2, <2>1, <2>4, <2>6
<1>7. ASSUME NEW c, UpdateSession(c) PROVE Goal
  BY <1>2, <1>7, QuietTab DEF UpdateSession
<1> QED BY <1>1, <1>3, <1>4, <1>5, <1>6, <1>7, ReceiveAcks DEF Listen

AckInv ==
    /\ AcksMatch
    /\ handling # Idle => ~ContainsAck(handling.elements)
    /\ ~ContainsAck(dcdu.elements) /\ ~ContainsAck(atc.elements)

LEMMA AckInit == Init => AckInv
<1> SUFFICES ASSUME Init PROVE AckInv
  OBVIOUS
<1>1. ASSUME NEW p, NEW min PROVE AcksSent(p, min) = {} /\ Received(p, min) = {}
  BY DEF Init, TabInit, AcksSent, AppSent, Received
<1>2. AcksMatch
  <2>1. Cardinality({}) = 0 /\ handling = Idle
    BY FS_EmptySet DEF Init, TabInit
  <2>2. ASSUME NEW p \in Peer, NEW min \in MIN
        PROVE  Cardinality(AcksSent(p, min)) =
                   Cardinality(Received(p, min)) + (IF BusyWith(p, min) THEN 1 ELSE 0)
    <3>1. Cardinality(AcksSent(p, min)) = 0 /\ Cardinality(Received(p, min)) = 0
      BY <1>1, <2>1
    <3>2. ~BusyWith(p, min)
      BY <2>1 DEF BusyWith
    <3> QED BY <3>1, <3>2
  <2> QED BY <2>2 DEF AcksMatch
<1> QED
  BY <1>2, EmptyHasNoAck DEF AckInv, Init, TabInit, DcduInit, Empty, AtcInit

(* The menu of the classic screen has the logical acknowledgement among    *)
(* its entries (dcdu_view.rs:165).  As long as nobody picks it, every      *)
(* message is acknowledged once, and acknowledgements never are.           *)
THEOREM AcknowledgedOnce ==
    ASSUME NoAcksByHand
    PROVE  Spec => []AcksMatch
<1>1. TypeOK /\ AckInv /\ [Next]_vars => AckInv'
  <2> SUFFICES ASSUME TypeOK, AckInv, [Next]_vars PROVE AckInv'
    OBVIOUS
  <2>1. TabTypeOK /\ TabTypeOK' /\ RowsGrow
    BY StepType DEF TypeOK
  <2>2. ASSUME SentQuietly, ListedQuietly, UNCHANGED handling PROVE AcksMatch'
    BY <2>1, <2>2, QuietSteps DEF AckInv, BusyWith
  <2>3. CASE Listen /\ UNCHANGED <<dcdu, a320, atc>>
    BY <2>1, <2>3, ListenAcks DEF AckInv
  <2>4. CASE DcduScreen
    BY <2>2, <2>4, DcduAcks DEF DcduScreen, AckInv, TypeOK
  <2>5. CASE A320Screen
    BY <2>2, <2>5, A320Acks DEF A320Screen, AckInv, TypeOK
  <2>6. CASE AtcScreen
    BY <2>2, <2>6, AtcAcks DEF AtcScreen, AckInv, TypeOK
  <2>7. CASE UNCHANGED vars
    BY <2>1, <2>2, <2>7, QuietTab DEF vars, tabVars, AckInv
  <2> QED BY <2>3, <2>4, <2>5, <2>6, <2>7 DEF Next
<1>2. AckInv => AcksMatch
  BY DEF AckInv
<1> QED BY <1>1, <1>2, AckInit, TypeCorrect, PTL DEF Spec
-----------------------------------------------------------------------------
(* The queue of the controller. *)

(* The rows a row may continue, and what RootOf says of a row, given what  *)
(* it says of the rows before.                                             *)
Parents(i) == {j \in Candidates : j < i /\ SameAircraft(i, j) /\ rows[j].min = rows[i].mrn}
RootStep(f, i) ==
    IF rows[i].mrn = None \/ Parents(i) = {} THEN rows[i].min ELSE f[Max(Parents(i))]

LEMMA LatestParent ==
    ASSUME TabTypeOK, NEW i \in Candidates, Parents(i) # {}
    PROVE  Max(Parents(i)) \in Parents(i)
<1>1. Parents(i) \subseteq 1..Len(rows) /\ Len(rows) \in Nat
  BY CandidatesIn DEF Parents, TabTypeOK
<1>2. \E k \in Parents(i) : \A j \in Parents(i) : j <= k
  BY <1>1, LastExists
<1> QED BY <1>2 DEF Max

(* There is such a function for the rows before any place; the next place  *)
(* only looks at these.                                                    *)
Before(n) == {i \in Candidates : i < n}
RootsBefore(n) ==
    \E f \in [Before(n) -> 0..MaxMin] : \A i \in Before(n) : f[i] = RootStep(f, i)

LEMMA RootsExist ==
    ASSUME TabTypeOK, NEW n \in Nat
    PROVE  RootsBefore(n)
<1>1. Candidates \subseteq DOMAIN rows /\ DOMAIN rows \subseteq Nat
  BY CandidatesIn DEF TabTypeOK
<1>2. \A i \in DOMAIN rows : i > 0
  BY DEF TabTypeOK
<1>3. RootsBefore(0)
  <2>1. Before(0) = {}
    BY <1>1, <1>2 DEF Before
  <2>2. [i \in Before(0) |-> 0] \in [Before(0) -> 0..MaxMin]
    BY <2>1
  <2> QED BY <2>1, <2>2 DEF RootsBefore
<1>4. ASSUME NEW m \in Nat, RootsBefore(m) PROVE RootsBefore(m + 1)
  <2>1. PICK f \in [Before(m) -> 0..MaxMin] : \A i \in Before(m) : f[i] = RootStep(f, i)
    BY <1>4 DEF RootsBefore
  <2> DEFINE g == [i \in Before(m + 1) |-> RootStep(f, i)]
  <2>2. ASSUME NEW i \in Before(m + 1)
        PROVE  /\ i \in Candidates /\ i \in Nat
               /\ Parents(i) # {} => Max(Parents(i)) \in Before(m)
    <3>1. i \in Candidates /\ i \in Nat /\ i < m + 1
      BY <1>1 DEF Before
    <3>2. ASSUME Parents(i) # {} PROVE Max(Parents(i)) \in Before(m)
      <4>1. Max(Parents(i)) \in Candidates /\ Max(Parents(i)) < i
        BY <3>1, <3>2, LatestParent DEF Parents
      <4>2. Max(Parents(i)) \in Nat
        BY <1>1, <4>1
      <4> QED BY <3>1, <4>1, <4>2 DEF Before
    <3> QED BY <3>1, <3>2
  <2>3. g \in [Before(m + 1) -> 0..MaxMin]
    <3>1. ASSUME NEW i \in Before(m + 1) PROVE RootStep(f, i) \in 0..MaxMin
      <4>1. rows[i].min \in 0..MaxMin
        BY <1>1, <2>2, RowAt
      <4>2. Parents(i) # {} => f[Max(Parents(i))] \in 0..MaxMin
        BY <2>2
      <4> QED BY <4>1, <4>2 DEF RootStep
    <3> QED BY <3>1
  <2>4. \A i \in Before(m) : i \in Before(m + 1) /\ g[i] = f[i]
    <3>1. Before(m) \subseteq Before(m + 1)
      BY <1>1 DEF Before
    <3> QED BY <2>1, <3>1
  <2>5. ASSUME NEW i \in Before(m + 1) PROVE g[i] = RootStep(g, i)
    <3>1. g[i] = RootStep(f, i)
      OBVIOUS
    <3> HIDE DEF g
    <3>2. Parents(i) # {} => g[Max(Parents(i))] = f[Max(Parents(i))]
      BY <2>2, <2>4
    <3> QED BY <3>1, <3>2 DEF RootStep
  <2> HIDE DEF g
  <2> QED BY <2>3, <2>5 DEF RootsBefore
<1>5. \A m \in Nat : RootsBefore(m)
  <2> DEFINE T == {m \in Nat : ~RootsBefore(m)}
  <2> SUFFICES ASSUME T # {} PROVE FALSE
    OBVIOUS
  <2>1. PICK m \in T : \A k \in T : m <= k
    <3>1. T \subseteq Nat
      OBVIOUS
    <3> HIDE DEF T
    <3> QED BY <3>1, FirstExists
  <2>2. m # 0 /\ m - 1 \in Nat
    BY <1>3
  <2>3. RootsBefore(m - 1)
    BY <2>1, <2>2
  <2>4. RootsBefore(m - 1 + 1) /\ m - 1 + 1 = m
    BY <1>4, <2>2, <2>3
  <2> QED BY <2>4
<1> QED BY <1>5

LEMMA RootUnfolds ==
    ASSUME TabTypeOK, NEW i \in Candidates
    PROVE  RootOf[i] = RootStep(RootOf, i)
<1> DEFINE n == Len(rows) + 1
<1>1. n \in Nat /\ Candidates \subseteq 1..Len(rows)
  BY CandidatesIn DEF TabTypeOK
<1>2. Before(n) = Candidates
  <2>1. \A j \in Candidates : j < n
    BY <1>1
  <2> QED BY <2>1 DEF Before
<1>3. PICK f \in [Candidates -> 0..MaxMin] : \A j \in Candidates : f[j] = RootStep(f, j)
  BY <1>1, <1>2, RootsExist DEF RootsBefore
<1>4. f = [j \in Candidates |-> RootStep(f, j)]
  BY <1>3
<1>5. RootOf = CHOOSE g : g = [j \in Candidates |-> RootStep(g, j)]
  BY DEF RootOf, RootStep, Parents
<1>6. RootOf = [j \in Candidates |-> RootStep(RootOf, j)]
  BY <1>4, <1>5
<1> QED BY <1>6

(* What a row that nothing refers to is the root of: itself.               *)
LEMMA UntouchedRoot ==
    ASSUME TabTypeOK, NEW i \in DOMAIN rows, Untouched(i)
    PROVE  /\ i \in Candidates
           /\ {j \in Candidates : SameAircraft(i, j) /\ RootOf[j] = RootOf[i]} = {i}
<1>1. i \in Candidates /\ Candidates \subseteq DOMAIN rows /\ DOMAIN rows \subseteq Nat
  BY DEF Untouched, Candidates, TabTypeOK
<1>2. /\ rows[i].mrn = None
      /\ \A j \in DOMAIN rows \ {i} :
             rows[j].peer = rows[i].peer => rows[j].mrn # rows[i].min /\ rows[j].min # rows[i].min
  BY DEF Untouched
<1>3. RootOf[i] = rows[i].min
  BY <1>1, <1>2, RootUnfolds DEF RootStep
<1> DEFINE others == {j \in Candidates : /\ rows[j].peer = rows[i].peer
                                         /\ RootOf[j] = rows[i].min /\ j # i}
<1>4. others = {}
  <2> SUFFICES ASSUME others # {} PROVE FALSE
    OBVIOUS
  <2>1. others \subseteq Nat
    BY <1>1
  <2>2. PICK j \in others : \A k \in others : j <= k
    <3> HIDE DEF others
    <3> QED BY <2>1, FirstExists
  <2>3. j \in Candidates /\ rows[j].peer = rows[i].peer /\ RootOf[j] = rows[i].min /\ j # i
        /\ j \in Nat
    BY <2>1, <2>2
  <2>4. RootOf[j] = RootStep(RootOf, j)
    BY <2>3, RootUnfolds
  <2>5. rows[j].min # rows[i].min /\ rows[j].mrn # rows[i].min
    BY <1>1, <1>2, <2>3
  <2>6. Parents(j) # {} /\ RootOf[Max(Parents(j))] = rows[i].min
    BY <2>3, <2>4, <2>5 DEF RootStep
  <2> DEFINE k == Max(Parents(j))
  <2>7. k \in Candidates /\ k < j /\ SameAircraft(j, k) /\ rows[k].min = rows[j].mrn
    BY <2>3, <2>6, LatestParent DEF Parents
  <2>8. k # i /\ rows[k].peer = rows[i].peer
    BY <2>3, <2>5, <2>7 DEF SameAircraft
  <2>9. k \in others
    BY <2>6, <2>7, <2>8
  <2>10. k \in Nat
    BY <1>1, <2>7
  <2> HIDE DEF k, others
  <2> QED BY <2>2, <2>3, <2>7, <2>9, <2>10
<1>5. \A j \in Candidates : rows[i].peer = rows[j].peer /\ RootOf[j] = rows[i].min => j = i
  BY <1>4
<1> HIDE DEF others
<1> QED BY <1>1, <1>3, <1>5 DEF SameAircraft

LEMMA LatestOfOne == \A i \in Nat : Max({i}) = i
BY DEF Max

LEMMA SomethingOffered ==
    ASSUME NEW i, ~rows[i].out, Max({i}) = i
    PROVE  Intents(i, {i}) # {}
<1>1. ForAttribute("WU") # {}
  BY DEF ForAttribute
<1> QED BY <1>1, Zenon DEF Intents

LEMMA UntouchedCard ==
    ASSUME TabTypeOK, NEW i \in DOMAIN rows, Untouched(i)
    PROVE  \E card \in Cards : /\ card.aircraft = rows[i].peer
                               /\ card.min = rows[i].min
                               /\ card.intents # {}
<1>1. /\ i \in Candidates
      /\ {j \in Candidates : SameAircraft(i, j) /\ RootOf[j] = RootOf[i]} = {i}
  BY UntouchedRoot
<1>2. {i} \in Dialogues
  BY <1>1 DEF Dialogues
<1>3. i \in Nat /\ Max({i}) = i
  BY LatestOfOne DEF TabTypeOK
<1>4. ~rows[i].out /\ ~RowCloses(rows[i]) /\ ~RowIsStandby(rows[i])
  BY DEF Untouched
<1>5. ActionSource({i}) = {i}
  BY <1>3, <1>4, Zenon DEF ActionSource
<1> DEFINE card == [source |-> i, aircraft |-> rows[i].peer, min |-> rows[i].min,
                    intents |-> Intents(i, {i})]
<1>6. card \in Cards
  <2> DEFINE cards(d) == {[source |-> s, aircraft |-> rows[s].peer, min |-> rows[s].min,
                           intents |-> Intents(s, d)] : s \in ActionSource(d)}
             open == {e \in Dialogues : \A j \in e : ~RowCloses(rows[j])}
  <2>1. card \in cards({i})
    BY <1>5
  <2>2. {i} \in open
    BY <1>2, <1>4
  <2>3. Cards = UNION {cards(d) : d \in open}
    BY Zenon DEF Cards
  <2> HIDE DEF cards, open, card
  <2> QED BY <2>1, <2>2, <2>3
<1>7. Intents(i, {i}) # {}
  BY <1>3, <1>4, SomethingOffered
<1>8. card.aircraft = rows[i].peer /\ card.min = rows[i].min /\ card.intents # {}
  BY <1>7
<1> QED BY <1>6, <1>8

(* No request is lost: a downlink that nothing refers to can be answered   *)
(* from the queue, for any rows, any number of aircraft and any reuse of   *)
(* MINs between them (build_pending_dialogues).                            *)
THEOREM UntouchedAreQueued == Spec => []RequestsAreQueued
<1>1. TypeOK => RequestsAreQueued
  BY UntouchedCard DEF RequestsAreQueued, TypeOK
<1> QED BY <1>1, TypeCorrect, PTL
=============================================================================
