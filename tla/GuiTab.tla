-------------------------------- MODULE GuiTab ---------------------------------
(***************************************************************************)
(* A connected tab with its screen: the listener of StationTab and one of  *)
(* the three views share the rows, the session and the numbering.          *)
(***************************************************************************)
EXTENDS DcduView, A320View, AtcView

vars == <<tabVars, dcdu, a320, atc>>

TypeOK == TabTypeOK /\ DcduTypeOK /\ A320TypeOK /\ AtcTypeOK

Init == TabInit /\ DcduInit /\ A320Init /\ AtcInit

(* The view of the operator's mode and aircraft.                           *)
DcduScreen == screen = "DCDU" /\ DcduStep /\ UNCHANGED <<a320, atc>>
A320Screen == screen = "A320" /\ A320Step /\ UNCHANGED <<dcdu, atc>>
AtcScreen == screen = "ATC" /\ AtcStep /\ UNCHANGED <<dcdu, a320>>

Next ==
    \/ Listen /\ UNCHANGED <<dcdu, a320, atc>>
    \/ DcduScreen
    \/ A320Screen
    \/ AtcScreen

Spec == Init /\ [][Next]_vars
=============================================================================
