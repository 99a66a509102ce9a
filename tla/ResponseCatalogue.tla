--------------------------- MODULE ResponseCatalogue ---------------------------
(***************************************************************************)
(* The catalogue of CPDLC messages and the rules the clients derive from   *)
(* it: which answer a message calls for, which short answers a screen      *)
(* offers, which answers close a dialogue, what is acknowledged.           *)
(* (openlink-models/src/cpdlc.rs, openlink-sdk/src/cpdlc_runtime.rs and    *)
(* the helpers of openlink-gui that only look at messages.)                *)
(*                                                                         *)
(* An element is its id; a message body is a sequence of ids.  Arguments   *)
(* are texts nothing here looks at; TakesArguments says whether there are  *)
(* any.                                                                    *)
(***************************************************************************)
EXTENDS Integers, Sequences, FiniteSets

UM(n) == <<"UM", n>>
DM(n) == <<"DM", n>>

Ids(elements) == {elements[i] : i \in DOMAIN elements}

-----------------------------------------------------------------------------
(* The registry. *)

ResponseAttribute == {"N", "Y", "R", "AN", "WU", "NE"}
Rank == [N |-> 0, Y |-> 1, R |-> 2, AN |-> 3, WU |-> 4, NE |-> 5]

(* MESSAGE_REGISTRY, by what each message asks for.                        *)
Uplinks ==
    [WU |-> 19..32 \cup {34} \cup 36..39 \cup 46..55 \cup
            {61, 64, 67, 74, 79, 80, 81, 82, 92, 94, 96, 106, 107, 108, 109, 116,
             117, 120, 123, 176, 179, 183, 190, 215},
     AN |-> {149},
     R  |-> {128, 129, 130, 153, 158, 168, 169, 222},
     Y  |-> {132, 133, 135, 148},
     N  |-> 0..5 \cup 159..163 \cup {211, 227},
     NE |-> {}]

Downlinks ==
    [WU |-> {},
     AN |-> {},
     R  |-> {67},
     Y  |-> {6, 7, 9, 10, 15, 18, 20, 22, 25, 27, 55, 56, 58, 70},
     N  |-> 0..5 \cup 28..34 \cup {37, 38, 41, 48, 62, 63, 65, 66, 89, 100},
     NE |-> {}]

Asks(id, attr) ==
    \/ id[1] = "UM" /\ id[2] \in Uplinks[attr]
    \/ id[1] = "DM" /\ id[2] \in Downlinks[attr]

(* find_definition succeeds.                                               *)
Known(id) == \E attr \in ResponseAttribute : Asks(id, attr)

(* Definitions without arguments.                                          *)
NoArguments ==
    {UM(n) : n \in 0..5 \cup {67, 96, 107, 116, 132, 133, 135, 161, 162, 168, 176,
                              179, 211, 222, 227}}
    \cup {DM(n) : n \in 0..5 \cup {20, 25, 41, 55, 56, 58, 63, 65, 66, 100}}

TakesArguments(id) == id \notin NoArguments

-----------------------------------------------------------------------------
(* Which answer a body calls for. *)

(* ResponseAttribute::effective: the greatest, where NE counts as N.       *)
Effective(attrs) ==
    LET counted == {IF a = "NE" THEN "N" ELSE a : a \in attrs}
    IN  IF counted = {} THEN "N"
        ELSE CHOOSE a \in counted : \A b \in counted : Rank[b] <= Rank[a]

(* Unknown elements do not count.                                          *)
AttributesOf(elements) ==
    {attr \in ResponseAttribute : \E id \in Ids(elements) : Asks(id, attr)}

EffectiveResponseAttr(elements) == Effective(AttributesOf(elements))

Intent == {"Wilco", "Unable", "Standby", "Roger", "Affirm", "Negative"}

ForAttribute(attr) ==
    CASE attr = "WU" -> {"Wilco", "Unable", "Standby"}
      [] attr = "AN" -> {"Affirm", "Negative", "Standby"}
      [] attr = "R"  -> {"Roger", "Standby"}
      [] OTHER -> {}

(* choose_short_response_intents: a body with no known element is answered *)
(* like a clearance.                                                       *)
ShortResponses(elements) ==
    IF AttributesOf(elements) = {} THEN ForAttribute("WU")
                                   ELSE ForAttribute(EffectiveResponseAttr(elements))

(* The pilot's screens offer, for a request of data, what refuses it.      *)
PilotIntents(elements) ==
    IF EffectiveResponseAttr(elements) = "Y" THEN {"Unable", "Standby"}
    ELSE ForAttribute(EffectiveResponseAttr(elements))

(* The controller's screen looks the elements up first.                    *)
ControllerIntents(elements) ==
    ShortResponses(elements) \cup ForAttribute(EffectiveResponseAttr(elements))

DownlinkId(intent) ==
    CASE intent = "Wilco"    -> DM(0)
      [] intent = "Unable"   -> DM(1)
      [] intent = "Standby"  -> DM(2)
      [] intent = "Roger"    -> DM(3)
      [] intent = "Affirm"   -> DM(4)
      [] intent = "Negative" -> DM(5)

UplinkId(intent) ==
    CASE intent = "Wilco"    -> UM(3)
      [] intent = "Unable"   -> UM(0)
      [] intent = "Standby"  -> UM(1)
      [] intent = "Roger"    -> UM(3)
      [] intent = "Affirm"   -> UM(4)
      [] intent = "Negative" -> UM(5)

-----------------------------------------------------------------------------
(* Dialogues and acknowledgements. *)

ClosingIds == {DM(0), DM(1), DM(3), DM(4), DM(5), UM(0), UM(3), UM(4), UM(5)}
StandbyIds == {DM(2), UM(1), UM(2)}
AckIds == {DM(100), UM(227)}

(* closes_dialogue_response_elements.                                      *)
Closes(elements) ==
    Ids(elements) \cap ClosingIds # {} /\ Ids(elements) \cap StandbyIds = {}

(* is_closing_response and is_standby: of a single element.                *)
IsClosingResponse(elements) == Len(elements) = 1 /\ elements[1] \in ClosingIds
IsStandby(elements) == Len(elements) = 1 /\ elements[1] \in StandbyIds

ContainsAck(elements) == Ids(elements) \cap AckIds # {}

(* Variant: acknowledgements are acknowledged.                             *)
ShouldAckAll(elements, min) == min > 0

(* should_auto_send_logical_ack.                                           *)
ShouldAck(elements, min) == min > 0 /\ ~ContainsAck(elements)

-----------------------------------------------------------------------------
(* arrange_responses: which key of the DCDU answers what, "" for none.     *)
(* Other intents than those of an attribute are UNABLE and STANDBY, in     *)
(* this order.                                                             *)
ArrangeResponses(intents) ==
    LET offered(i) == IF i \in intents THEN i ELSE ""
        Grid(topLeft, botRight) ==
            [topLeft |-> offered(topLeft), topRight |-> offered("Standby"),
             botLeft |-> "", botRight |-> botRight]
    IN  CASE "Wilco" \in intents  -> Grid("Unable", "Wilco")
          [] "Affirm" \in intents -> Grid("Negative", "Affirm")
          [] "Roger" \in intents  -> Grid("", "Roger")
          [] intents = {"Unable", "Standby"} ->
               [topLeft |-> "", topRight |-> "Standby", botLeft |-> "",
                botRight |-> "Unable"]
          [] Cardinality(intents) = 1 ->
               [topLeft |-> "", topRight |-> "", botLeft |-> "",
                botRight |-> CHOOSE i \in intents : TRUE]
          [] OTHER -> [topLeft |-> "", topRight |-> "", botLeft |-> "",
                       botRight |-> ""]

Keys(grid) == {grid.topLeft, grid.topRight, grid.botLeft, grid.botRight} \ {""}
=============================================================================
