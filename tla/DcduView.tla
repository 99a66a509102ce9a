------------------------------- MODULE DcduView --------------------------------
(***************************************************************************)
(* The classic pilot screen (openlink-gui/src/components/dcdu_view.rs with *)
(* the message list of shared.rs): logon, answers under each uplink, and a *)
(* popover with the downlinks, which collects elements in a composer.  The *)
(* composer lives in the tab, also while the popover is not shown.         *)
(***************************************************************************)
EXTENDS StationTab

VARIABLE dcdu   \* open: the popover; pending: the downlink whose parameters
                \* are asked for, filled: they parse; mode, elements, mrn and
                \* sendAfter: the composer

NoId == <<"", 0>>

Empty == [open |-> FALSE, pending |-> NoId, filled |-> FALSE, mode |-> FALSE,
          elements |-> << >>, mrn |-> None, sendAfter |-> FALSE]

DcduTypeOK ==
    dcdu \in [open : BOOLEAN, pending : Menu \cup {NoId}, filled : BOOLEAN,
              mode : BOOLEAN, elements : Seq(Element), mrn : 0..MaxMin,
              sendAfter : BOOLEAN]

DcduInit == dcdu = Empty

(* station_callsign: whatever connection is shown.                         *)
Station == session.peer
HasQueue == dcdu.mode /\ (dcdu.elements # << >> \/ dcdu.mrn # None)
PopoverShown == session.phase = "Connected" /\ dcdu.open
MenuShown == PopoverShown /\ dcdu.pending = NoId

(* LOGON, shown while there is no connection; the numbering starts over,   *)
(* at the click here and in the task that it spawns in the code.           *)
Logon(p) ==
    /\ session.phase = "Disconnected"
    /\ MayWrite
    /\ PublishAndStartOver(<<Meta("logon", p)>>, p)
    /\ rows' = Append(rows, Row(TRUE, None, None, None, << >>))
    /\ UNCHANGED <<screen, session, flights, handling, environment, dcdu>>

(* CANCEL only forgets the session on this side.                           *)
CancelLogon ==
    /\ session.phase \in {"LogonPending", "LoggedOn"}
    /\ session' = NoConnection
    /\ UNCHANGED <<screen, flights, rows, mins, handling, sent, environment, dcdu>>

-----------------------------------------------------------------------------
(* The message list: answers. *)

Answerable(i) == ~rows[i].out /\ ~rows[i].responded /\ rows[i].min # None

Respond(i, intent) ==
    /\ Answerable(i)
    /\ intent \in PilotIntents(rows[i].elements)
    /\ SendDownlink(Station, <<DownlinkId(intent)>>, rows[i].min)
    /\ UNCHANGED dcdu

(* COMPOSE starts from the first answer offered, and adds to what is in    *)
(* the composer.                                                           *)
FirstIntent(intents) ==
    IF intents = {"Unable", "Standby"} THEN "Unable"
    ELSE CHOOSE first \in intents : first \in {"Wilco", "Affirm", "Roger"}

RespondCompose(i) ==
    LET intents == PilotIntents(rows[i].elements)
    IN  /\ Answerable(i)
        /\ intents # {}
        /\ Len(dcdu.elements) < MaxElements
        /\ dcdu' = [open |-> TRUE, pending |-> NoId, filled |-> FALSE, mode |-> TRUE,
                    elements |-> Append(dcdu.elements, DownlinkId(FirstIntent(intents))),
                    mrn |-> rows[i].min, sendAfter |-> FALSE]
        /\ UNCHANGED tabVars

-----------------------------------------------------------------------------
(* The popover. *)

(* Variant: closing the popover keeps what was composed.                   *)
ToggleKeeps ==
    /\ session.phase = "Connected"
    /\ dcdu' = [dcdu EXCEPT !.open = ~@]
    /\ UNCHANGED tabVars

Toggle ==
    /\ session.phase = "Connected"
    /\ dcdu' = IF dcdu.open THEN Empty ELSE [dcdu EXCEPT !.open = TRUE]
    /\ UNCHANGED tabVars

ClearComposer ==
    /\ PopoverShown
    /\ HasQueue
    /\ dcdu' = [dcdu EXCEPT !.mode = FALSE, !.elements = << >>, !.mrn = None,
                            !.sendAfter = FALSE]
    /\ UNCHANGED tabVars

SendAll ==
    /\ PopoverShown
    /\ HasQueue
    /\ dcdu.elements # << >>
    /\ SendDownlink(Station, dcdu.elements, dcdu.mrn)
    /\ dcdu' = Empty

Ask(d, sendAfter) ==
    dcdu' = [dcdu EXCEPT !.pending = d, !.filled = FALSE, !.sendAfter = sendAfter]

(* A click on a downlink: with a composition under way, it is added and    *)
(* everything is sent; otherwise it is sent alone.  One with parameters    *)
(* asks for them first.  Sent alone, it leaves the composer as it is.      *)
Pick(d) ==
    /\ MenuShown
    /\ \/ /\ TakesArguments(d)
          /\ Ask(d, HasQueue)
          /\ UNCHANGED tabVars
       \/ /\ ~TakesArguments(d) /\ HasQueue
          /\ SendDownlink(Station, Append(dcdu.elements, d), dcdu.mrn)
          /\ dcdu' = Empty
       \/ /\ ~TakesArguments(d) /\ ~HasQueue
          /\ SendDownlink(Station, <<d>>, None)
          /\ dcdu' = [dcdu EXCEPT !.open = FALSE, !.filled = FALSE]

(* "+" adds a downlink to the composition, after asking for its parameters. *)
Add(d) ==
    /\ MenuShown
    /\ Len(dcdu.elements) < MaxElements
    /\ dcdu' = IF TakesArguments(d)
               THEN [dcdu EXCEPT !.mode = TRUE, !.pending = d, !.filled = FALSE,
                                 !.sendAfter = FALSE]
               ELSE [dcdu EXCEPT !.mode = TRUE, !.elements = Append(@, d),
                                 !.sendAfter = FALSE]
    /\ UNCHANGED tabVars

Fill(parses) ==
    /\ PopoverShown
    /\ dcdu.pending # NoId
    /\ dcdu' = [dcdu EXCEPT !.filled = parses]
    /\ UNCHANGED tabVars

CancelParameters ==
    /\ PopoverShown
    /\ dcdu.pending # NoId
    /\ dcdu' = [dcdu EXCEPT !.pending = NoId, !.filled = FALSE]
    /\ UNCHANGED tabVars

(* The button below the parameters reads SEND ALL, ADD or SEND.            *)
Submit ==
    /\ PopoverShown
    /\ dcdu.pending # NoId
    /\ dcdu.filled
    /\ \/ /\ dcdu.mode /\ dcdu.sendAfter
          /\ SendDownlink(Station, Append(dcdu.elements, dcdu.pending), dcdu.mrn)
          /\ dcdu' = Empty
       \/ /\ dcdu.mode /\ ~dcdu.sendAfter
          /\ Len(dcdu.elements) < MaxElements
          /\ dcdu' = [dcdu EXCEPT !.elements = Append(@, dcdu.pending), !.pending = NoId,
                                  !.filled = FALSE]
          /\ UNCHANGED tabVars
       \/ /\ ~dcdu.mode
          /\ SendDownlink(Station, <<dcdu.pending>>, None)
          /\ dcdu' = [dcdu EXCEPT !.open = FALSE, !.pending = NoId, !.filled = FALSE,
                                  !.sendAfter = FALSE]

DcduStep ==
    \/ \E p \in Stations : Logon(p)
    \/ CancelLogon
    \/ \E i \in DOMAIN rows, intent \in Intent : Respond(i, intent)
    \/ \E i \in DOMAIN rows : RespondCompose(i)
    \/ Toggle
    \/ ClearComposer
    \/ SendAll
    \/ \E d \in Menu : Pick(d) \/ Add(d)
    \/ \E parses \in BOOLEAN : Fill(parses)
    \/ CancelParameters
    \/ Submit
=============================================================================
