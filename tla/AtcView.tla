-------------------------------- MODULE AtcView --------------------------------
(***************************************************************************)
(* The controller's screen (openlink-gui/src/components/atc_view.rs): the  *)
(* traffic list with a selection by place, the queue of pending requests   *)
(* worked out from the rows, a composer for uplinks, and the log that      *)
(* marks uplinks not yet acknowledged.                                     *)
(*                                                                         *)
(* A dialogue closed for a minute leaves the queue; since its card has no  *)
(* buttons left before either, time is left out.                           *)
(***************************************************************************)
EXTENDS StationTab

VARIABLE atc    \* selected: place in the list, 0 for none; command, filled:
                \* the template and whether its parameters parse; elements,
                \* mrn, target: the composer

NoCommand == <<"", 0>>

AtcTypeOK ==
    atc \in [selected : 0..Cardinality(Aircraft), command : Templates \cup {NoCommand},
             filled : BOOLEAN, elements : Seq(Element), mrn : 0..MaxMin,
             target : Peer \cup {None}]

AtcInit ==
    atc = [selected |-> 0, command |-> NoCommand, filled |-> FALSE,
           elements |-> << >>, mrn |-> None, target |-> None]

-----------------------------------------------------------------------------
(* The traffic list. *)

Linked == {p \in Aircraft : flights[p] # "None"}

(* Where a flight stands in the list sorted by callsign.                   *)
Place(p, linked) == Cardinality({q \in linked : q <= p})

FlightAt(idx) ==
    IF \E p \in Linked : Place(p, Linked) = idx
    THEN CHOOSE p \in Linked : Place(p, Linked) = idx ELSE None

SelectFlight(p) ==
    /\ p \in Linked
    /\ atc' = [atc EXCEPT !.selected = IF @ = Place(p, Linked) THEN 0
                                       ELSE Place(p, Linked)]
    /\ UNCHANGED tabVars

(* Variant: the selection stays where it is.                               *)
UpdateFlightOnly(p, phase) ==
    /\ handling = Idle
    /\ flights' = [flights EXCEPT ![p] = phase]
    /\ UNCHANGED <<atc, screen, session, rows, mins, handling, sent, environment>>

(* SessionUpdate: the aircraft leaves the list when it has no connection   *)
(* left, and a selection past the end of the list is given up.             *)
UpdateFlight(p, phase) ==
    /\ handling = Idle
    /\ flights' = [flights EXCEPT ![p] = phase]
    /\ atc' = [atc EXCEPT !.selected = IF @ > Cardinality(Linked') THEN 0 ELSE @]
    /\ UNCHANGED <<screen, session, rows, mins, handling, sent, environment>>

-----------------------------------------------------------------------------
(* What rows mean.  Rows of what the controller sent only have their text, *)
(* so only a short answer alone is recognised in them.                     *)

RowIsAck(r) == ~r.out /\ ContainsAck(r.elements)
RowCloses(r) == IF r.out THEN IsClosingResponse(r.elements) ELSE Closes(r.elements)
RowIsStandby(r) ==
    IF r.out THEN r.elements = <<UM(1)>> ELSE Ids(r.elements) \cap StandbyIds # {}

(* is_dialogue_candidate.                                                  *)
Candidates == {i \in DOMAIN rows : rows[i].min # None /\ ~RowIsAck(rows[i])}

-----------------------------------------------------------------------------
(* build_pending_dialogues. *)

(* Variant: MINs of all aircraft together.                                 *)
AnyAircraft(i, j) == TRUE

(* The MIN that started the dialogue of a row: that of the latest row of   *)
(* the same aircraft that it refers to, or its own.                        *)
SameAircraft(i, j) == rows[i].peer = rows[j].peer

RootOf[i \in Candidates] ==
    LET parents == {j \in Candidates :
                        j < i /\ SameAircraft(i, j) /\ rows[j].min = rows[i].mrn}
    IN  IF rows[i].mrn = None \/ parents = {} THEN rows[i].min
        ELSE RootOf[Max(parents)]

(* The dialogues, each by its rows.                                        *)
Dialogues ==
    {{j \in Candidates : SameAircraft(i, j) /\ RootOf[j] = RootOf[i]} : i \in Candidates}

FindByMin(min, aircraft) ==
    {i \in Candidates : rows[i].min = min /\ rows[i].peer = aircraft}

(* Which rows a card could answer (at most one): the request itself, or,   *)
(* after a STANDBY, the message that was put off.                          *)
ActionSource(dialogue) ==
    LET latest == rows[Max(dialogue)]
        putOff == FindByMin(latest.mrn, latest.peer)
    IN  CASE RowIsStandby(latest) -> IF putOff = {} THEN {} ELSE {Min(putOff)}
          [] ~RowIsStandby(latest) /\ ~latest.out -> {Max(dialogue)}
          [] OTHER -> {}

Intents(source, dialogue) ==
    LET r == rows[source]
        latest == rows[Max(dialogue)]
        known == IF r.out THEN {} ELSE ControllerIntents(r.elements)
        offered == CASE ~r.out /\ EffectiveResponseAttr(r.elements) = "Y" ->
                          {"Unable", "Standby"}
                     [] known = {} -> ForAttribute("WU")
                     [] OTHER -> known
    IN  IF latest.out /\ RowIsStandby(latest) THEN offered \ {"Standby"} ELSE offered

(* The cards that have buttons.                                            *)
Cards ==
    UNION {{[source |-> s, aircraft |-> rows[s].peer, min |-> rows[s].min,
             intents |-> Intents(s, d)] : s \in ActionSource(d)} :
           d \in {e \in Dialogues : \A i \in e : ~RowCloses(rows[i])}}

-----------------------------------------------------------------------------
(* What the controller sends. *)

SendUplink(to, elements, mrn) ==
    /\ MayWrite
    /\ Publish(Message(to, elements, mrn))
    /\ rows' = Append(rows, Row(TRUE, to, mins[to], mrn, elements))
    /\ UNCHANGED <<screen, session, flights, handling, environment>>

(* An accepted logon is followed by the request for the connection.        *)
AnswerLogon(p, accept) ==
    /\ flights[p] = "LogonPending"
    /\ MayWrite
    /\ IF accept
       THEN PublishAndStartOver(<<Meta("logonResponse", p), Meta("connectionRequest", p)>>, p)
       ELSE sent' = Append(sent, Meta("logonResponse", p)) /\ UNCHANGED mins
    /\ rows' = Append(rows, Row(TRUE, p, None, None, << >>))
    /\ UNCHANGED <<screen, session, flights, handling, environment, atc>>

(* A button of a card.  The request it answers is marked.                  *)
QuickResponse(card, intent) ==
    LET answered == {i \in DOMAIN rows : ~rows[i].out /\ rows[i].min = card.min
                                           /\ rows[i].peer = card.aircraft}
        row == Row(TRUE, card.aircraft, mins[card.aircraft], card.min, <<UplinkId(intent)>>)
        marked == IF intent = "Standby" \/ answered = {} THEN rows
                  ELSE [rows EXCEPT ![Min(answered)].responded = TRUE]
    IN  /\ intent \in card.intents
        /\ card.aircraft \in Linked
        /\ MayWrite
        /\ Publish(Message(card.aircraft, <<UplinkId(intent)>>, card.min))
        /\ rows' = Append(marked, row)
        /\ UNCHANGED <<screen, session, flights, handling, environment, atc>>

(* The composer is aimed at the aircraft of the card, which is selected.   *)
Aimed(card) ==
    [atc EXCEPT !.mrn = card.min, !.target = card.aircraft,
                !.selected = IF card.aircraft \in Linked
                             THEN Place(card.aircraft, Linked) ELSE @]

OpenResponseComposer(card) == atc' = Aimed(card) /\ UNCHANGED tabVars

(* "+": the answer is put into the composer; a refusal only, if data was   *)
(* asked for.                                                              *)
InjectResponse(card, intent) ==
    LET r == rows[card.source]
    IN  /\ intent \in card.intents
        /\ ~r.out /\ EffectiveResponseAttr(r.elements) = "Y" => intent = "Unable"
        /\ Len(atc.elements) < MaxElements
        /\ atc' = [Aimed(card) EXCEPT !.elements = Append(@, UplinkId(intent))]
        /\ UNCHANGED tabVars

-----------------------------------------------------------------------------
(* The composer. *)

(* compose_flight: the aircraft that is answered, or the selected one.     *)
ComposeFlight == IF atc.target \in Linked THEN atc.target ELSE FlightAt(atc.selected)

ComposerShown == ComposeFlight # None /\ flights[ComposeFlight] = "Connected"

ChooseTemplate(u) ==
    /\ ComposerShown
    /\ atc.command = NoCommand
    /\ atc' = [atc EXCEPT !.command = u, !.filled = FALSE]
    /\ UNCHANGED tabVars

FillParameters(parse) ==
    /\ ComposerShown
    /\ atc.command # NoCommand /\ TakesArguments(atc.command)
    /\ atc' = [atc EXCEPT !.filled = parse]
    /\ UNCHANGED tabVars

CancelTemplate ==
    /\ ComposerShown
    /\ atc.command # NoCommand
    /\ atc' = [atc EXCEPT !.command = NoCommand, !.filled = FALSE]
    /\ UNCHANGED tabVars

(* build_command_element succeeds.                                         *)
Built ==
    IF atc.command # NoCommand /\ (atc.filled \/ ~TakesArguments(atc.command))
    THEN <<atc.command>> ELSE << >>

AddToMessage ==
    /\ ComposerShown
    /\ Built # << >>
    /\ Len(atc.elements) < MaxElements
    /\ atc' = [atc EXCEPT !.elements = @ \o Built, !.filled = FALSE]
    /\ UNCHANGED tabVars

Sendable(elements) == ComposerShown /\ elements # << >>

(* Variant: the reference of the answer is kept.                           *)
SendComposedKeeps(elements) ==
    /\ Sendable(elements)
    /\ SendUplink(ComposeFlight, elements, atc.mrn)
    /\ atc' = [atc EXCEPT !.elements = << >>, !.target = None, !.command = NoCommand]

(* SEND CPDLC UPLINK and SEND NOW, which adds the template first if it can. *)
SendComposed(elements) ==
    /\ Sendable(elements)
    /\ SendUplink(ComposeFlight, elements, atc.mrn)
    /\ atc' = [atc EXCEPT !.elements = << >>, !.mrn = None, !.target = None,
                          !.command = NoCommand]

ClearUplink ==
    /\ ComposerShown
    /\ atc' = [atc EXCEPT !.elements = << >>, !.mrn = None, !.target = None,
                          !.command = NoCommand, !.filled = FALSE]
    /\ UNCHANGED tabVars

AtcStep ==
    \/ \E p \in Aircraft :
         \/ SelectFlight(p)
         \/ \E phase \in Phases \cup {"None"} : UpdateFlight(p, phase)
         \/ \E accept \in BOOLEAN : AnswerLogon(p, accept)
    \/ \E card \in Cards :
         \/ OpenResponseComposer(card)
         \/ \E intent \in Intent : QuickResponse(card, intent) \/ InjectResponse(card, intent)
    \/ \E u \in Templates : ChooseTemplate(u)
    \/ \E parse \in BOOLEAN : FillParameters(parse)
    \/ CancelTemplate
    \/ AddToMessage
    \/ SendComposed(atc.elements)
    \/ atc.command # NoCommand /\ SendComposed(atc.elements \o Built)
    \/ ClearUplink
=============================================================================
