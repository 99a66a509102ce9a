---------------------------- MODULE GuiTabProperties -----------------------------
(***************************************************************************)
(* What the listener and the screens of a tab keep true of each other.     *)
(***************************************************************************)
EXTENDS GuiTab

AppSent(p) == {i \in DOMAIN sent : sent[i].kind = "app" /\ sent[i].to = p}
AcksSent(p, min) == {i \in AppSent(p) : ContainsAck(sent[i].elements) /\ sent[i].mrn = min}

(* The messages of a peer with a MIN that call for an acknowledgement, the *)
(* one the listener is busy with included.                                 *)
Received(p, min) ==
    {i \in DOMAIN rows : /\ ~rows[i].out /\ rows[i].peer = p /\ rows[i].min = min
                         /\ ~ContainsAck(rows[i].elements)}
BusyWith(p, min) == handling # Idle /\ handling.from = p /\ handling.min = min

(* Acknowledgements end: every message is acknowledged once, by the time   *)
(* its row is on the screen, and acknowledgements never are, whatever the  *)
(* user does while the listener is busy (main.rs, handle_incoming_application). *)
AcksMatch ==
    \A p \in Peer, min \in MIN :
        Cardinality(AcksSent(p, min)) =
            Cardinality(Received(p, min)) + (IF BusyWith(p, min) THEN 1 ELSE 0)

(* No answer of an earlier composition slips into the next one: a composer *)
(* of the classic screen that is not in use holds nothing and refers to    *)
(* nothing, and the popover only shows what was put into it since it was   *)
(* opened (dcdu_view.rs: the composer is in the tab, the popover comes and *)
(* goes with the session).                                                 *)
CompositionIsClean ==
    /\ ~dcdu.open => dcdu.elements = << >> /\ dcdu.mrn = None /\ dcdu.pending = NoId
    /\ ~dcdu.mode => dcdu.elements = << >> /\ dcdu.mrn = None

(* A draft that waits on the A320 DCDU answers a message that nothing else *)
(* answers meanwhile: as long as it waits, an unanswered uplink has that   *)
(* MIN, although newer uplinks take its place on the display.              *)
DraftStaysOpen ==
    a320.draftMrn # None =>
        \E i \in DOMAIN rows :
            ~rows[i].out /\ ~rows[i].responded /\ rows[i].min = a320.draftMrn

(* The selection is a place in the traffic list, so a controller never     *)
(* writes to a flight that has left it (atc_view.rs: the list is worked    *)
(* out from sessions the listener adds and removes).                       *)
SelectedIsAFlight == atc.selected <= Cardinality(Linked)

(* A composition that answers a message keeps the aircraft it answers: the *)
(* MIN it refers to and the target are set and given up together, and that *)
(* MIN is one that was exchanged with the target.                          *)
ReplyKeepsItsTarget ==
    /\ atc.mrn # None <=> atc.target # None
    /\ atc.mrn # None =>
           \E i \in DOMAIN rows : rows[i].min = atc.mrn /\ rows[i].peer = atc.target

(* A downlink that nothing refers to, and whose MIN no other row of that   *)
(* aircraft has, can be answered from the queue, whatever other aircraft   *)
(* sent with the same MIN (build_pending_dialogues).                       *)
Untouched(i) ==
    /\ ~rows[i].out /\ rows[i].min # None /\ rows[i].mrn = None
    /\ ~RowIsAck(rows[i]) /\ ~RowCloses(rows[i]) /\ ~RowIsStandby(rows[i])
    /\ \A j \in DOMAIN rows \ {i} :
           rows[j].peer = rows[i].peer => rows[j].mrn # rows[i].min /\ rows[j].min # rows[i].min

RequestsAreQueued ==
    screen = "ATC" =>
        LET queue == Cards
        IN  \A i \in DOMAIN rows : Untouched(i) =>
                \E card \in queue : /\ card.aircraft = rows[i].peer
                                    /\ card.min = rows[i].min
                                    /\ card.intents # {}
=============================================================================
