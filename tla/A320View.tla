------------------------------- MODULE A320View --------------------------------
(***************************************************************************)
(* The A320 pilot screen (openlink-gui/src/components/a320_view.rs): a     *)
(* DCDU that shows one message at a time with its answers on four keys,    *)
(* and an MCDU whose pages collect the elements of a downlink, which is    *)
(* transferred to the DCDU as a draft and sent from there.                 *)
(*                                                                         *)
(* MSG- and MSG+ do nothing: view_index stays -1, so the DCDU shows the    *)
(* last visible row.  No station is ever entered on the NOTIFICATION page, *)
(* so NOTIFY stays disabled.                                               *)
(***************************************************************************)
EXTENDS StationTab

VARIABLE a320   \* pending: on the MCDU; draft, draftMrn: on the DCDU;
                \* standby: stby_sent_mins

A320TypeOK ==
    a320 \in [pending : Seq(Menu), draft : Seq(Menu), draftMrn : 0..MaxMin,
              standby : SUBSET MIN]

A320Init == a320 = [pending |-> << >>, draft |-> << >>, draftMrn |-> None, standby |-> {}]

-----------------------------------------------------------------------------
(* What the DCDU shows. *)

(* root_visible_messages: an answer to an incoming message is hidden.      *)
Visible ==
    {i \in DOMAIN rows :
        rows[i].mrn # None =>
            \A u \in DOMAIN rows \ {i} : rows[u].out \/ rows[u].min # rows[i].mrn}

Shown == IF Visible = {} THEN 0 ELSE Max(Visible)

(* current_open_min.                                                       *)
OpenMin ==
    IF Shown = 0 \/ rows[Shown].out \/ rows[Shown].responded THEN None
    ELSE rows[Shown].min

(* Variant: answers are offered while a draft waits.                       *)
OfferedAlways ==
    IF Shown = 0 \/ rows[Shown].out \/ rows[Shown].responded
    THEN {}
    ELSE PilotIntents(rows[Shown].elements)
           \ (IF rows[Shown].min \in a320.standby THEN {"Standby"} ELSE {})

(* The answers on the keys: none while a draft waits, STANDBY once per     *)
(* dialogue.                                                               *)
Offered ==
    IF Shown = 0 \/ rows[Shown].out \/ rows[Shown].responded \/ a320.draft # << >>
    THEN {}
    ELSE PilotIntents(rows[Shown].elements)
           \ (IF rows[Shown].min \in a320.standby THEN {"Standby"} ELSE {})

(* station_callsign: without a connection, whoever wrote last.             *)
Senders == {i \in DOMAIN rows : ~rows[i].out /\ rows[i].peer # None}

Correspondent ==
    IF session.peer # None THEN session.peer
    ELSE IF Senders = {} THEN None ELSE rows[Max(Senders)].peer

-----------------------------------------------------------------------------
(* The keys of the DCDU.                                                   *)

Press(intent) ==
    LET min == rows[Shown].min
    IN  /\ intent \in Keys(ArrangeResponses(Offered))
        /\ min # None
        /\ SendDownlink(Correspondent, <<DownlinkId(intent)>>, min)
        /\ a320' = [a320 EXCEPT !.standby = IF intent = "Standby" THEN @ \cup {min}
                                                                  ELSE @ \ {min}]

SendDraft ==
    /\ a320.draft # << >>
    /\ SendDownlink(Correspondent, a320.draft, a320.draftMrn)
    /\ a320' = [a320 EXCEPT !.draft = << >>, !.draftMrn = None]

-----------------------------------------------------------------------------
(* The MCDU. *)

(* An entry of a page, with parameters that parse.  Only free text and     *)
(* what has no parameters is listed twice; of others, the one there may be *)
(* already goes.                                                           *)
Enter(d) ==
    LET kept == IF d = DM(67) \/ ~TakesArguments(d) THEN a320.pending
                ELSE RemoveFirst(a320.pending, d)
    IN  /\ Len(kept) < MaxElements
        /\ a320' = [a320 EXCEPT !.pending = Append(kept, d)]
        /\ UNCHANGED tabVars

Erase ==
    /\ a320' = [a320 EXCEPT !.pending = << >>]
    /\ UNCHANGED tabVars

(* XFR TO DCDU: the draft answers the message that is shown open.          *)
Transfer ==
    /\ a320.pending # << >>
    /\ a320' = [a320 EXCEPT !.draft = a320.pending, !.draftMrn = OpenMin,
                            !.pending = << >>]
    /\ UNCHANGED tabVars

A320Step ==
    \/ \E intent \in Intent : Press(intent)
    \/ SendDraft
    \/ \E d \in Menu : Enter(d)
    \/ Erase
    \/ Transfer
=============================================================================
