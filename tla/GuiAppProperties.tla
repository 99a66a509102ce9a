---------------------------- MODULE GuiAppProperties -----------------------------
(***************************************************************************)
(* What holds between the tabs, their clients and the tasks that serve     *)
(* them, and what is said of closing a tab.                                *)
(***************************************************************************)
EXTENDS GuiApp

(* No inbox is read twice, and nobody listens for a form: a tab has at     *)
(* most one listener, started after it was connected, however often the    *)
(* effect runs while the listener is still subscribing (main.rs:30-65).    *)
OneListenerEach ==
    \A t \in Tab :
        /\ Cardinality(ListenersOf(t)) <= 1
        /\ ListenersOf(t) # {} => phase[t] = "Connected"

(* The screen of a connected tab can send: its client is there until that  *)
(* very tab is closed, although tabs are closed by their place and clients *)
(* are found by their id.                                                  *)
ConnectedCanSend == \A t \in Tab : Connected(t) => clients[t] # None

(* As long as there are tabs, one of them is on the screen, whichever are  *)
(* closed (state.rs, close_tab).                                           *)
SomeTabIsShown == tabs # << >> => Shown # None

-----------------------------------------------------------------------------
(* Liveness.  The executor goes on with every task that can, so the effect *)
(* runs and listeners take their steps; the heartbeat ticks.  Nothing is   *)
(* assumed of users and of messages.                                       *)

FairSpec ==
    /\ Spec
    /\ \A t \in Tab : WF_vars(StartListener(t)) /\ WF_vars(ListenerStep(t))

(* A closed tab is silent in the end: its listener stops, although it is   *)
(* only told by finding the tab gone at the top of its loop.               *)
ClosedFallSilent == \A t \in Tab : t <= opened /\ t \notin Open ~> ListenersOf(t) = {}

(* Every connected tab is listened to in the end, whether or not it is     *)
(* still the one that is shown, as long as no subscription fails.          *)
ConnectedAreServed ==
    [](faults = 0) =>
        \A t \in Tab : Connected(t) ~> t \notin Open \/ \E l \in ListenersOf(t) : l.step = "wait"
=============================================================================
