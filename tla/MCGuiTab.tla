------------------------------- MODULE MCGuiTab --------------------------------
(* Instances of the tab and its screens for TLC. *)
EXTENDS GuiTabProperties

(* What arrives: a pilot is told to climb and to contact a unit, an        *)
(* aircraft asks for a climb, and everybody acknowledges.                  *)
ToContact == {<<UM(20)>>, <<UM(117)>>, <<UM(227)>>}
ToClimb == {<<DM(9)>>, <<DM(100)>>}
Nothing == {}

(* What users pick: DM25 has no parameters, the others have.               *)
OfPilot == {DM(25), DM(9)}
OfController == {UM(20)}

Once == [s \in Screens |-> 1]
OnceTwice == [s \in Screens |-> IF s = "A320" THEN 2 ELSE 1]
=============================================================================
