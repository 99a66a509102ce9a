------------------------------- MODULE MCGuiApp --------------------------------
(* Instances of the tabs for TLC. *)
EXTENDS GuiAppProperties
=============================================================================
