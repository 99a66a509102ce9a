-------------------------------- MODULE GuiApp ---------------------------------
(***************************************************************************)
(* The tabs of the GUI client (openlink-gui/src/main.rs, state.rs,         *)
(* components/station_setup.rs, components/tab_bar.rs, nats_client.rs):    *)
(* opened, set up, connected, listened to and closed.  What a listener     *)
(* does with a message, and the screens, are in StationTab.                *)
(*                                                                         *)
(* All tasks run on the thread of the user interface and give way only     *)
(* where they await the network.  The task that connects belongs to the    *)
(* setup form and is dropped with it, at whatever await it is; listeners   *)
(* and farewells belong to the application.                                *)
(***************************************************************************)
EXTENDS Naturals, Sequences, FiniteSets, SequencesExt

CONSTANTS
    MaxTabs,    \* bound on how many tabs are opened
    Station,    \* complete setups: who a tab can be on the network
    Blank,      \* a setup with a field missing
    None,
    MaxFaults   \* bound on connections, sends and subscriptions that fail

Tab == 1..MaxTabs   \* ids

ASSUME TabAssumption == MaxTabs \in Nat \ {0}
ASSUME NoneAssumption == Blank \notin Station /\ None \notin Station \cup Tab
ASSUME FaultsAssumption == MaxFaults \in Nat

VARIABLES
    tabs,       \* the ids of the open tabs, from left to right
    active,     \* active_tab: place of the tab that is shown
    opened,     \* how many tabs were opened
    setup,      \* the setup form of each tab
    phase,      \* "Setup" or "Connected"
    marked,     \* nats_task_active: a listener was started
    clients,    \* NatsClients: the setup each client was connected with
    connecting, \* the task of the form that is shown, or Idle
    listeners,  \* inbox listeners that run
    farewells,  \* OFFLINE messages about to be sent
    presence,   \* what the network was told last of each station
    saved,      \* presets
    faults

form == <<setup, phase, clients, saved>>
tasks == <<connecting, listeners, farewells>>
vars == <<tabs, active, opened, marked, form, tasks, presence, faults>>

Idle == [step |-> "idle"]
Connecting == [step : {"connect", "online"}, tab : Tab, setup : Station]
Listener == [step : {"subscribe", "check", "wait"}, tab : Tab, nr : Nat,
             setup : Station \cup {Blank}]

TypeOK ==
    /\ tabs \in Seq(Tab)
    /\ active \in Nat
    /\ opened \in 0..MaxTabs
    /\ setup \in [Tab -> Station \cup {Blank}]
    /\ phase \in [Tab -> {"Setup", "Connected"}]
    /\ marked \in [Tab -> BOOLEAN]
    /\ clients \in [Tab -> Station \cup {None}]
    /\ connecting \in Connecting \cup {Idle}
    /\ listeners \subseteq Listener
    /\ farewells \subseteq Tab \X (Station \cup {Blank})
    /\ presence \in [Station \cup {Blank} -> {"Unknown", "Online", "Offline"}]
    /\ saved \subseteq Station
    /\ faults \in 0..MaxFaults

Open == Range(tabs)
Connected(t) == t \in Open /\ phase[t] = "Connected"
ListenersOf(t) == {l \in listeners : l.tab = t}
ShownAt(open, place) == IF place \in DOMAIN open THEN open[place] ELSE None
Shown == ShownAt(tabs, active)

(* The setup form is on the screen; it stays the same form from one tab to *)
(* the next, and everything it runs ends when it goes.                     *)
IsForm(t) == t # None /\ phase[t] = "Setup"
Rendered(open, place) == IF IsForm(ShownAt(open, place)) THEN connecting ELSE Idle

Init ==
    /\ tabs = <<1>>
    /\ active = 1
    /\ opened = 1
    /\ setup = [t \in Tab |-> Blank]
    /\ phase = [t \in Tab |-> "Setup"]
    /\ marked = [t \in Tab |-> FALSE]
    /\ clients = [t \in Tab |-> None]
    /\ connecting = Idle
    /\ listeners = {}
    /\ farewells = {}
    /\ presence = [s \in Station \cup {Blank} |-> "Unknown"]
    /\ saved = {}
    /\ faults = 0

-----------------------------------------------------------------------------
(* The tab bar. *)

NewTab ==
    /\ opened < MaxTabs
    /\ opened' = opened + 1
    /\ tabs' = Append(tabs, opened + 1)
    /\ active' = Len(tabs) + 1
    /\ connecting' = Rendered(tabs', active')
    /\ UNCHANGED <<marked, form, listeners, farewells, presence, faults>>

SelectTab(i) ==
    /\ active' = i
    /\ connecting' = Rendered(tabs, i)
    /\ UNCHANGED <<tabs, opened, marked, form, listeners, farewells, presence, faults>>

(* Variant: the place is kept.                                             *)
ActiveKept(remaining) == active

(* Closing a connected tab says farewell and forgets its client; the       *)
(* listener is not told.  The place of the shown tab only changes when     *)
(* there is none left at it.                                               *)
ActiveAfter(remaining) ==
    IF active > Len(remaining) /\ remaining # << >> THEN Len(remaining) ELSE active

(* Variant: the client of the tab that is shown goes.                      *)
WithoutShown(t) == IF Shown = None THEN clients ELSE [clients EXCEPT ![Shown] = None]

WithoutClient(t) == [clients EXCEPT ![t] = None]

CloseTab(i) ==
    LET t == tabs[i]
    IN  /\ farewells' = IF phase[t] = "Connected" /\ clients[t] # None
                        THEN farewells \cup {<<t, setup[t]>>} ELSE farewells
        /\ clients' = WithoutClient(t)
        /\ tabs' = RemoveAt(tabs, i)
        /\ active' = ActiveAfter(tabs')
        /\ connecting' = Rendered(tabs', active')
        /\ UNCHANGED <<opened, setup, phase, marked, listeners, presence, saved, faults>>

SendFarewell(t, s) ==
    /\ <<t, s>> \in farewells
    /\ farewells' = farewells \ {<<t, s>>}
    /\ presence' = [presence EXCEPT ![s] = "Offline"]
    /\ UNCHANGED <<tabs, active, opened, marked, form, connecting, listeners, faults>>

-----------------------------------------------------------------------------
(* The setup form. *)

(* The fields and the presets stay enabled while the tab is connecting.    *)
Edit(s) ==
    /\ IsForm(Shown)
    /\ setup' = [setup EXCEPT ![Shown] = s]
    /\ UNCHANGED <<tabs, active, opened, marked, phase, clients, saved, tasks,
                   presence, faults>>

(* Variant: fields may be missing.                                         *)
ConnectIncomplete ==
    /\ IsForm(Shown)
    /\ connecting = Idle
    /\ connecting' = [step |-> "connect", tab |-> Shown, setup |-> setup[Shown]]
    /\ UNCHANGED <<tabs, active, opened, marked, form, listeners, farewells, presence,
                   faults>>

Connect ==
    /\ IsForm(Shown)
    /\ connecting = Idle
    /\ setup[Shown] # Blank
    /\ connecting' = [step |-> "connect", tab |-> Shown, setup |-> setup[Shown]]
    /\ UNCHANGED <<tabs, active, opened, marked, form, listeners, farewells, presence,
                   faults>>

ClientReady ==
    /\ connecting.step = "connect"
    /\ connecting' = [connecting EXCEPT !.step = "online"]
    /\ UNCHANGED <<tabs, active, opened, marked, form, listeners, farewells, presence,
                   faults>>

(* ONLINE is sent; the tab, which may be closed by now or set up anew, is  *)
(* connected with the setup the task began with.                           *)
WentOnline ==
    LET t == connecting.tab
    IN  /\ connecting.step = "online"
        /\ presence' = [presence EXCEPT ![connecting.setup] = "Online"]
        /\ saved' = saved \cup {connecting.setup}
        /\ clients' = [clients EXCEPT ![t] = connecting.setup]
        /\ phase' = IF t \in Open THEN [phase EXCEPT ![t] = "Connected"] ELSE phase
        /\ marked' = IF t \in Open THEN [marked EXCEPT ![t] = FALSE] ELSE marked
        /\ connecting' = Idle
        /\ UNCHANGED <<tabs, active, opened, setup, listeners, farewells, faults>>

ConnectFails ==
    /\ connecting # Idle
    /\ faults < MaxFaults
    /\ faults' = faults + 1
    /\ connecting' = Idle
    /\ UNCHANGED <<tabs, active, opened, marked, form, listeners, farewells, presence>>

-----------------------------------------------------------------------------
(* Inbox listeners. *)

Listening(t) ==
    [step |-> "subscribe", tab |-> t, nr |-> Cardinality(ListenersOf(t)) + 1,
     setup |-> setup[t]]

(* Variant: only for the tab that is shown.                                *)
NeedsShown(t) == Connected(t) /\ ~marked[t] /\ Shown = t

NeedsListener(t) == Connected(t) /\ ~marked[t]

(* Variant: the tab is marked once the listener has subscribed.            *)
StartUnmarked(t) ==
    /\ NeedsListener(t)
    /\ clients[t] # None
    /\ listeners' = listeners \cup {Listening(t)}
    /\ UNCHANGED <<tabs, active, opened, marked, form, connecting, farewells, presence,
                   faults>>

(* The effect of App, run after every change of the tabs.                  *)
StartListener(t) ==
    /\ NeedsListener(t)
    /\ marked' = [marked EXCEPT ![t] = TRUE]
    /\ listeners' = IF clients[t] = None THEN listeners ELSE listeners \cup {Listening(t)}
    /\ UNCHANGED <<tabs, active, opened, form, connecting, farewells, presence, faults>>

Goes(l, step) == listeners' = (listeners \ {l}) \cup {[l EXCEPT !.step = step]}

Subscribe(l) ==
    /\ l.step = "subscribe"
    /\ Goes(l, "check")
    /\ UNCHANGED <<tabs, active, opened, marked, form, connecting, farewells, presence,
                   faults>>

(* A subscription that fails, or ends, ends the listener; the tab stays    *)
(* marked.                                                                 *)
SubscriptionEnds(l) ==
    /\ l.step \in {"subscribe", "wait"}
    /\ faults < MaxFaults
    /\ faults' = faults + 1
    /\ listeners' = listeners \ {l}
    /\ UNCHANGED <<tabs, active, opened, marked, form, connecting, farewells, presence>>

(* Variant: the loop goes on.                                              *)
CheckNothing(l) ==
    /\ l.step = "check"
    /\ Goes(l, "wait")
    /\ UNCHANGED <<tabs, active, opened, marked, form, connecting, farewells, presence,
                   faults>>

(* The top of the loop.                                                    *)
CheckTab(l) ==
    /\ l.step = "check"
    /\ IF l.tab \in Open THEN Goes(l, "wait") ELSE listeners' = listeners \ {l}
    /\ UNCHANGED <<tabs, active, opened, marked, form, connecting, farewells, presence,
                   faults>>

Heartbeat(l) ==
    /\ l.step = "wait"
    /\ Goes(l, "check")
    /\ presence' = [presence EXCEPT ![l.setup] = "Online"]
    /\ UNCHANGED <<tabs, active, opened, marked, form, connecting, farewells, faults>>

MessageArrives(l) ==
    /\ l.step = "wait"
    /\ Goes(l, "check")
    /\ UNCHANGED <<tabs, active, opened, marked, form, connecting, farewells, presence,
                   faults>>

ListenerStep(t) ==
    \E l \in ListenersOf(t) : Subscribe(l) \/ CheckTab(l) \/ Heartbeat(l)

Next ==
    \/ NewTab
    \/ \E i \in DOMAIN tabs : SelectTab(i) \/ CloseTab(i)
    \/ \E s \in Station \cup {Blank} : Edit(s)
    \/ Connect
    \/ ClientReady
    \/ WentOnline
    \/ ConnectFails
    \/ \E t \in Tab : StartListener(t) \/ ListenerStep(t)
    \/ \E l \in listeners : MessageArrives(l) \/ SubscriptionEnds(l)
    \/ \E f \in farewells : SendFarewell(f[1], f[2])

Spec == Init /\ [][Next]_vars
=============================================================================
