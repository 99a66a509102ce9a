------------------------------ MODULE StationTab -------------------------------
(***************************************************************************)
(* One connected tab of the GUI client (openlink-gui/src/main.rs and       *)
(* state.rs): what its inbox listener does with the messages that arrive,  *)
(* the rows and the session it keeps for its screen, and the numbering of  *)
(* what it sends (openlink-sdk/src/client.rs).  The screens are modules of *)
(* their own (DcduView, A320View, AtcView).                                *)
(*                                                                         *)
(* The listener and the screen share the tab's state.  The listener waits  *)
(* while it publishes, and the user may press buttons meanwhile; a click   *)
(* runs to its end, what it sends is numbered at once and published in     *)
(* order.                                                                  *)
(*                                                                         *)
(* The peers, and the server between, are the environment: every peer      *)
(* numbers its own messages, as the SDK does.                              *)
(***************************************************************************)
EXTENDS ResponseCatalogue, SequencesExt

CONSTANTS
    Stations,       \* callsigns of ground stations, in alphabetical order
    Aircraft,       \* callsigns of aircraft, in alphabetical order
    Screens,        \* the screens that are set up: "DCDU", "A320", "ATC"
    Uplinks4Me,     \* bodies that stations send
    Downlinks4Me,   \* bodies that aircraft send
    Menu,           \* the downlinks a pilot picks
    Templates,      \* the uplinks a controller picks
    Phases,         \* the phases of a connection the server reports
    MaxMin,         \* 63: MINs run from 1 to MaxMin
    MaxArrivals,    \* bound on the messages that arrive, session updates apart
    MaxOutgoing,    \* bound on the rows of messages sent, for each screen
    MaxElements,    \* bound on the elements of a composition
    MaxRenumber     \* bound on how often peers start their numbering over

Peer == Stations \cup Aircraft
Element == {"UM", "DM"} \X Nat

ASSUME PeerAssumption ==
    /\ Stations \subseteq Nat \ {0} /\ IsFiniteSet(Stations)
    /\ Aircraft \subseteq Nat \ {0} /\ IsFiniteSet(Aircraft)
ASSUME ScreensAssumption == Screens \subseteq {"DCDU", "A320", "ATC"}
ASSUME PhasesAssumption == Phases \subseteq {"LogonPending", "LoggedOn", "Connected"}
ASSUME BoundsAssumption ==
    /\ MaxMin \in Nat \ {0}
    /\ MaxArrivals \in Nat
    /\ MaxOutgoing \in [Screens -> Nat]
    /\ MaxElements \in Nat
    /\ MaxRenumber \in Nat
ASSUME CatalogueAssumption ==
    /\ Uplinks4Me \subseteq Seq(Element) /\ Downlinks4Me \subseteq Seq(Element)
    /\ \A d \in Menu : d \in Element /\ Known(d)
    /\ \A u \in Templates : u \in Element /\ Known(u)

VARIABLES
    screen,     \* the screen of this tab, chosen at setup
    session,    \* the connection a pilot is shown: active, else inactive
    flights,    \* atc_sessions: the phase of the connection to each aircraft
    rows,       \* messages
    mins,       \* min_sequences: the next MIN to each peer
    handling,   \* the message the listener is busy with, or Idle
    sent,       \* history: what was published
    peerMins,   \* the next MIN each peer gives
    arrivals,   \* how many messages arrived
    renumbered  \* how often a peer started over

listener == <<session, flights, handling>>
environment == <<peerMins, arrivals, renumbered>>
tabVars == <<screen, session, flights, rows, mins, handling, sent, peerMins,
             arrivals, renumbered>>

MIN == 1..MaxMin
None == 0                       \* no MIN, no MRN, no callsign
NoConnection == [peer |-> None, phase |-> "Disconnected"]
Connection == [peer : Stations, phase : Phases] \cup {NoConnection}
Idle == [step |-> "idle"]
Pilot == screen \in {"DCDU", "A320"}
Others == IF Pilot THEN Stations ELSE Aircraft

(* A row of the message list.  Rows that are no application message have   *)
(* no elements and no MIN; one with a MIN has a peer.                      *)
Row(out, peer, min, mrn, elements) ==
    [out |-> out, peer |-> peer, min |-> min, mrn |-> mrn, elements |-> elements,
     responded |-> FALSE]

Rows == {r \in [out : BOOLEAN, peer : Peer \cup {None}, min : 0..MaxMin,
                mrn : 0..MaxMin, elements : Seq(Element), responded : BOOLEAN] :
         r.min # None => r.peer # None}

MetaKind == {"logon", "logonResponse", "connectionRequest", "connectionResponse"}
Sent == [kind : {"app"} \cup MetaKind, to : Peer, min : 0..MaxMin, mrn : 0..MaxMin,
         elements : Seq(Element)]

Busy == [step : {"contact", "store"}, from : Peer, min : MIN, mrn : 0..MaxMin,
         elements : Seq(Element), unit : Peer]

TabTypeOK ==
    /\ screen \in Screens
    /\ session \in Connection
    /\ flights \in [Peer -> Phases \cup {"None"}]
    /\ rows \in Seq(Rows)
    /\ mins \in [Peer -> MIN]
    /\ handling \in Busy \cup {Idle}
    /\ sent \in Seq(Sent)
    /\ peerMins \in [Peer -> MIN]
    /\ arrivals \in 0..MaxArrivals
    /\ renumbered \in 0..MaxRenumber

TabInit ==
    /\ screen \in Screens
    /\ session = NoConnection
    /\ flights = [p \in Peer |-> "None"]
    /\ rows = << >>
    /\ mins = [p \in Peer |-> 1]
    /\ handling = Idle
    /\ sent = << >>
    /\ peerMins = [p \in Peer |-> 1]
    /\ arrivals = 0
    /\ renumbered = 0

-----------------------------------------------------------------------------
(* Sending. *)

(* Variant: the numbering goes on.                                         *)
UnwrappedMin(n) == n + 1

(* next_min_for_session: after the last comes 1.                           *)
NextMin(n) == IF n >= MaxMin THEN 1 ELSE n + 1

(* An application message to a peer: it takes the next MIN.                *)
Message(to, elements, mrn) ==
    [kind |-> "app", to |-> to, min |-> mins[to], mrn |-> mrn, elements |-> elements]

Publish(m) ==
    /\ sent' = Append(sent, m)
    /\ mins' = [mins EXCEPT ![m.to] = NextMin(@)]

(* A meta message: it has no MIN, and some of them start the numbering of  *)
(* the sender over (reset_min_for_session).                                *)
Meta(kind, to) ==
    [kind |-> kind, to |-> to, min |-> None, mrn |-> None, elements |-> << >>]

PublishAndStartOver(ms, peer) ==
    /\ sent' = sent \o ms
    /\ mins' = [mins EXCEPT ![peer] = 1]

(* Outgoing rows are bounded, which bounds what users do.                  *)
MayWrite == Cardinality({i \in DOMAIN rows : rows[i].out}) < MaxOutgoing[screen]

(* The first incoming row with the MIN is closed.                          *)
MarkResponded(rs, min) ==
    LET found == {i \in DOMAIN rs : ~rs[i].out /\ rs[i].min = min}
    IN  IF min = None \/ found = {} THEN rs
        ELSE [rs EXCEPT ![Min(found)].responded = TRUE]

(* What a pilot sends, and the row it leaves; an answer that closes the    *)
(* dialogue is noted at the uplink.                                        *)
SendDownlink(to, elements, mrn) ==
    /\ MayWrite
    /\ to # None
    /\ Publish(Message(to, elements, mrn))
    /\ LET listed == Append(rows, Row(TRUE, None, None, mrn, elements))
       IN  rows' = IF Closes(elements) THEN MarkResponded(listed, mrn) ELSE listed
    /\ UNCHANGED <<screen, session, flights, handling, environment>>

-----------------------------------------------------------------------------
(* The environment: what may arrive. *)

BodiesForMe == IF Pilot THEN Uplinks4Me ELSE Downlinks4Me

MinsSentTo(p) ==
    {sent[i].min : i \in {j \in DOMAIN sent : sent[j].to = p /\ sent[j].kind = "app"}}

(* Peers answer what they were sent; an acknowledgement always does.       *)
Sensible(elements, mrn) == ContainsAck(elements) => mrn # None

(* A peer that sets up a connection again starts its numbering over.       *)
PeerStartsOver(p) ==
    /\ renumbered < MaxRenumber
    /\ renumbered' = renumbered + 1
    /\ peerMins' = [peerMins EXCEPT ![p] = 1]

Arrive == handling = Idle /\ arrivals < MaxArrivals /\ arrivals' = arrivals + 1

-----------------------------------------------------------------------------
(* The listener.                                                           *)

(* handle_incoming_application: the acknowledgement goes out first.  An    *)
(* acknowledgement is stored at once, since nothing is sent for it.  That  *)
(* the publish fails, logged only, is left out: it does so once the task   *)
(* of the connection is gone, and then nothing is received.                *)
Contacts(elements) == Pilot /\ UM(117) \in Ids(elements)

Receive(p, elements, mrn, unit) ==
    LET min == peerMins[p]
    IN  /\ Arrive
        /\ Sensible(elements, mrn)
        /\ unit = p \/ Contacts(elements)
        /\ peerMins' = [peerMins EXCEPT ![p] = NextMin(@)]
        /\ IF ShouldAck(elements, min)
           THEN /\ Publish(Message(p, <<IF Pilot THEN DM(100) ELSE UM(227)>>, min))
                /\ handling' = [step |-> IF Contacts(elements) THEN "contact" ELSE "store",
                                from |-> p, min |-> min, mrn |-> mrn,
                                elements |-> elements, unit |-> unit]
                /\ UNCHANGED rows
           ELSE /\ rows' = Append(rows, Row(FALSE, p, min, mrn, elements))
                /\ UNCHANGED <<handling, sent, mins>>
        /\ UNCHANGED <<screen, session, flights, renumbered>>

(* A pilot told to contact a unit logs on to it.                           *)
LogOnToUnit ==
    /\ handling.step = "contact"
    /\ PublishAndStartOver(<<Meta("logon", handling.unit)>>, handling.unit)
    /\ rows' = Append(rows, Row(TRUE, None, None, None, << >>))
    /\ handling' = [handling EXCEPT !.step = "store"]
    /\ UNCHANGED <<screen, session, flights, environment>>

(* The row is stored when all has been sent.                               *)
StoreRow ==
    /\ handling.step = "store"
    /\ rows' = Append(rows, Row(FALSE, handling.from, handling.min, handling.mrn,
                                handling.elements))
    /\ handling' = Idle
    /\ UNCHANGED <<screen, session, flights, mins, sent, environment>>

(* A pilot's client accepts every connection request.  Here, and in        *)
(* ReceiveLogonForward, the await between the publish and what follows it  *)
(* is left out.                                                            *)
ReceiveConnectionRequest(p) ==
    /\ Pilot
    /\ Arrive
    /\ PeerStartsOver(p)
    /\ sent' = Append(sent, Meta("connectionResponse", p))
    /\ UNCHANGED <<screen, rows, mins, listener>>

(* An answer to a pilot's logon, accepted or not, or the logon of an       *)
(* aircraft, is only listed.                                               *)
ReceiveLogon(p) ==
    /\ Arrive
    /\ PeerStartsOver(p) \/ (Pilot /\ UNCHANGED <<peerMins, renumbered>>)
    /\ rows' = Append(rows, Row(FALSE, p, None, None, << >>))
    /\ UNCHANGED <<screen, mins, sent, listener>>

(* A station that an aircraft is forwarded to requests the connection.     *)
ReceiveLogonForward(p) ==
    /\ ~Pilot
    /\ Arrive
    /\ PublishAndStartOver(<<Meta("connectionRequest", p)>>, p)
    /\ rows' = rows \o <<Row(TRUE, None, None, None, << >>),
                         Row(FALSE, None, None, None, << >>)>>
    /\ UNCHANGED <<screen, peerMins, renumbered, listener>>

(* The server says how the session of a pilot is now.                      *)
UpdateSession(c) ==
    /\ Pilot
    /\ handling = Idle
    /\ session' = c
    /\ UNCHANGED <<screen, flights, rows, mins, handling, sent, environment>>

Listen ==
    \/ \E p \in Others, elements \in BodiesForMe, unit \in Others :
         \E mrn \in MinsSentTo(p) \cup {None} : Receive(p, elements, mrn, unit)
    \/ LogOnToUnit
    \/ StoreRow
    \/ \E p \in Others :
         \/ ReceiveConnectionRequest(p)
         \/ ReceiveLogon(p)
         \/ ReceiveLogonForward(p)
    \/ \E c \in Connection : UpdateSession(c)
=============================================================================
