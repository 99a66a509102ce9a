------------------------------- MODULE WebScreens -------------------------------
(***************************************************************************)
(* The screens of the web demonstrator over its connection: the DCDU that  *)
(* shows, answers and sends messages (DcduScreen.tsx), the MCDU that       *)
(* composes them (McduScreen.tsx) and the frame that shows them only while *)
(* connected (App.tsx).                                                    *)
(*                                                                         *)
(* The pages of the MCDU lead to keys and are left out: any key is a few   *)
(* presses away.  What a key needs is typed just before it is pressed.     *)
(***************************************************************************)
EXTENDS WebClient

CONSTANTS
    Menu,           \* the downlinks the pilot composes
    MaxElements     \* bound on the elements of a composition

ASSUME MenuAssumption == Menu \subseteq {"DM"} \X Nat /\ MaxElements \in Nat

VARIABLES
    viewIndex,      \* the place the pilot browsed to, 0 for the newest
    elements        \* pendingElements: what is composed

screens == <<viewIndex, elements>>
vars == <<clientVars, screens>>

TypeOK ==
    /\ ClientTypeOK
    /\ viewIndex \in Nat
    /\ elements \in Seq(Menu)

Init == ClientInit /\ viewIndex = 0 /\ elements = << >>

Cockpit == status = "connected"

-----------------------------------------------------------------------------
(* The DCDU. *)

(* Messages that refer to an uplink are shown with it.                     *)
Linked(i) ==
    /\ rows[i].mrn # None
    /\ \E u \in DOMAIN rows \ {i} : ~rows[u].out /\ rows[u].min = rows[i].mrn

VisibleMessages == {i \in DOMAIN rows : ~Linked(i)}
Places == 1..Cardinality(VisibleMessages)

EffectiveIndex == IF viewIndex \in Places THEN viewIndex ELSE Cardinality(VisibleMessages)

(* currentMessage: the row on the screen.                                  *)
Current(i) ==
    /\ i \in VisibleMessages
    /\ Cardinality({j \in VisibleMessages : j <= i}) = EffectiveIndex

(* The rows under a message on the screen.                                 *)
LinkedResponses(i) ==
    IF rows[i].out \/ rows[i].min = None THEN {}
    ELSE {j \in DOMAIN rows \ {i} : rows[j].mrn = rows[i].min}

(* The draft that answers the uplink on the screen, the first if there are *)
(* several, one being sent included.                                       *)
LinkedDrafts(i) ==
    {j \in LinkedResponses(i) : rows[j].out /\ rows[j].status \in {"draft", "sending"}}

LinkedDraft(i, j) == j \in LinkedDrafts(i) /\ \A k \in LinkedDrafts(i) : j <= k

(* Variant: whatever can be answered is offered.                           *)
AllIntents(i) == rows[i].intents

(* After STANDBY it is not offered again.                                  *)
EffectiveIntents(i) ==
    IF rows[i].status = "sent" THEN rows[i].intents \ {"Standby"} ELSE rows[i].intents

(* The keys that answer; all are off while an answer is under way.         *)
Answers(i) ==
    IF rows[i].out \/ LinkedDrafts(i) # {} \/ rows[i].status \notin {"open", "sent"} THEN {}
    ELSE Keys(ArrangeResponses(EffectiveIntents(i)))

HandleResponse ==
    \E i \in DOMAIN rows :
        /\ Current(i)
        /\ \E intent \in Answers(i) : SendResponse(i, intent)
        /\ UNCHANGED screens

(* SEND, for a draft on the screen or under the uplink on the screen.      *)
SendKey ==
    \E i \in DOMAIN rows :
        /\ Current(i)
        /\ \/ rows[i].status = "draft" /\ SendDraft(i)
           \/ \E j \in DOMAIN rows : LinkedDraft(i, j) /\ SendDraft(j)
        /\ UNCHANGED screens

GoTo(place) ==
    /\ place \in Places
    /\ viewIndex' = place
    /\ UNCHANGED <<clientVars, elements>>

Dcdu ==
    \/ HandleResponse
    \/ SendKey
    \/ GoTo(EffectiveIndex + 1)
    \/ GoTo(EffectiveIndex - 1)

-----------------------------------------------------------------------------
(* The MCDU. *)

(* Free text and elements without arguments may be repeated.               *)
Stackable(d) == d = DM(67) \/ ~TakesArguments(d)

(* The others are listed once, and taken out before they are listed again. *)
Without(d) == RemoveFirst(elements, d)

AddElement(d) ==
    /\ MayDraft
    /\ elements' = Append(IF Stackable(d) THEN elements ELSE Without(d), d)
    /\ Len(elements') <= MaxElements
    /\ UNCHANGED <<clientVars, viewIndex>>

EraseInputs ==
    /\ elements' = << >>
    /\ UNCHANGED <<clientVars, viewIndex>>

DoTransferToDcdu ==
    /\ elements # << >>
    /\ TransferToDcdu(elements)
    /\ elements' = << >>
    /\ UNCHANGED viewIndex

Notify(s) == SendLogonRequest(s) /\ UNCHANGED screens

Mcdu ==
    \/ \E d \in Menu : AddElement(d)
    \/ EraseInputs
    \/ DoTransferToDcdu
    \/ \E s \in Station : Notify(s)

-----------------------------------------------------------------------------
(* Screens that are not shown are forgotten.                               *)
LeaveCockpit == Drained /\ viewIndex' = 0 /\ elements' = << >>

Next ==
    \/ ClientStep /\ UNCHANGED screens
    \/ Connect /\ UNCHANGED screens
    \/ Disconnect /\ UNCHANGED screens
    \/ LeaveCockpit
    \/ Cockpit /\ Dcdu
    \/ Cockpit /\ Mcdu

Spec == Init /\ [][Next]_vars
=============================================================================
