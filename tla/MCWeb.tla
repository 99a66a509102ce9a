--------------------------------- MODULE MCWeb ----------------------------------
(* Instances of the web demonstrator for TLC. *)
EXTENDS WebProperties

(* What arrives: a report to note and an acknowledgement; a question.      *)
Instructions == {<<UM(128)>>, <<UM(227)>>}
Questions == {<<UM(148)>>}

Requests == {DM(9)}
=============================================================================
