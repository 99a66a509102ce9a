------------------------------ MODULE GuiAppProofs ------------------------------
(***************************************************************************)
(* Proofs about GuiApp for any number of tabs, any stations and any fault  *)
(* budget: its type invariant, that no inbox is read twice, that connected *)
(* tabs can send, and that one of the open tabs is shown.                  *)
(***************************************************************************)
EXTENDS GuiAppProperties, PlaceLemmas, FiniteSetTheorems, SequenceTheorems, TLAPS

(* Taking a tab out of the bar leaves the others in it, each once.         *)
Distinct(s) == \A i, j \in DOMAIN s : s[i] = s[j] => i = j

LEMMA RemoveAtRange ==
    ASSUME NEW S, NEW s \in Seq(S), NEW i \in DOMAIN s, Distinct(s)
    PROVE  /\ Distinct(RemoveAt(s, i))
           /\ Range(RemoveAt(s, i)) = Range(s) \ {s[i]}
<1> DEFINE r == RemoveAt(s, i)
<1>1. /\ r \in Seq(S) /\ Len(r) = Len(s) - 1
      /\ \A j \in 1..(Len(s) - 1) : r[j] = s[PlaceBefore(i, j)]
  BY RemoveAtSeq
<1>2. /\ DOMAIN r = 1..(Len(s) - 1) /\ DOMAIN s = 1..Len(s)
      /\ Len(s) \in Nat /\ i \in 1..Len(s)
  BY <1>1
<1> HIDE DEF r
<1>3. \A j \in DOMAIN r : PlaceBefore(i, j) \in DOMAIN s \ {i}
  BY <1>2 DEF PlaceBefore
<1>4. \A j, k \in DOMAIN r : PlaceBefore(i, j) = PlaceBefore(i, k) => j = k
  BY <1>2 DEF PlaceBefore
<1>5. \A k \in DOMAIN s \ {i} : \E j \in DOMAIN r : PlaceBefore(i, j) = k
  <2> SUFFICES ASSUME NEW k \in DOMAIN s \ {i}
               PROVE  \E j \in DOMAIN r : PlaceBefore(i, j) = k
    OBVIOUS
  <2>1. CASE k < i
    <3>1. k \in DOMAIN r /\ PlaceBefore(i, k) = k
      BY <1>2, <2>1 DEF PlaceBefore
    <3> QED BY <3>1
  <2>2. CASE k > i
    <3>1. k - 1 \in DOMAIN r /\ PlaceBefore(i, k - 1) = k
      BY <1>2, <2>2 DEF PlaceBefore
    <3> QED BY <3>1
  <2> QED BY <1>2, <2>1, <2>2
<1>6. \A j \in DOMAIN r : r[j] = s[PlaceBefore(i, j)]
  BY <1>1, <1>2
<1>7. Distinct(r)
  BY <1>3, <1>4, <1>6 DEF Distinct
<1>8. Range(r) = Range(s) \ {s[i]}
  BY <1>3, <1>5, <1>6 DEF Distinct, Range
<1> QED BY <1>7, <1>8 DEF r

LEMMA AppendRange ==
    ASSUME NEW S, NEW s \in Seq(S), NEW e
    PROVE  Range(Append(s, e)) = Range(s) \cup {e}
<1>1. /\ DOMAIN s = 1..Len(s) /\ Len(s) \in Nat
      /\ DOMAIN Append(s, e) = 1..(Len(s) + 1)
      /\ Append(s, e)[Len(s) + 1] = e
      /\ \A j \in 1..Len(s) : Append(s, e)[j] = s[j]
  OBVIOUS
<1>2. ASSUME NEW x \in Range(Append(s, e)) PROVE x \in Range(s) \cup {e}
  BY <1>1 DEF Range
<1>3. ASSUME NEW x \in Range(s) \cup {e} PROVE x \in Range(Append(s, e))
  <2>1. Len(s) + 1 \in DOMAIN Append(s, e)
    BY <1>1
  <2>2. CASE x = e
    BY <1>1, <2>1, <2>2 DEF Range
  <2>3. CASE x \in Range(s)
    BY <1>1, <2>3 DEF Range
  <2> QED BY <2>2, <2>3
<1> QED BY <1>2, <1>3

(* The facts about the bar and its tasks that the properties rest on.      *)
ListenersFinite == IsFiniteSet(listeners)

TabsDistinct == Distinct(tabs)

(* Ids are given out in order; what was not opened yet is not connected.   *)
IdsInOrder ==
    /\ \A i \in DOMAIN tabs : tabs[i] <= opened
    /\ \A t \in Tab : t > opened => phase[t] = "Setup"

PlaceInBar == tabs # << >> => active \in DOMAIN tabs

(* The task that connects works for a tab that is not connected.           *)
ConnectingIsSetup == connecting # Idle => phase[connecting.tab] = "Setup"

(* Only a marked tab is listened to, by one listener.                      *)
ListenersMarked ==
    /\ \A l \in listeners : marked[l.tab] /\ phase[l.tab] = "Connected"
    /\ \A l, m \in listeners : l.tab = m.tab => l = m

-----------------------------------------------------------------------------
(* Type correctness. *)

LEMMA ShownAtType ==
    ASSUME NEW open \in Seq(Tab), NEW place \in Nat
    PROVE  /\ ShownAt(open, place) \in Tab \cup {None}
           /\ ShownAt(open, place) \in Tab <=> place \in DOMAIN open
BY NoneAssumption DEF ShownAt

LEMMA RenderedType ==
    ASSUME NEW open, NEW place
    PROVE  Rendered(open, place) \in {connecting, Idle}
BY DEF Rendered

LEMMA ListeningType ==
    ASSUME TypeOK, ListenersFinite, NEW t \in Tab
    PROVE  Listening(t) \in Listener
<1>1. IsFiniteSet(ListenersOf(t))
  BY FS_Subset DEF ListenersFinite, ListenersOf
<1>2. Cardinality(ListenersOf(t)) \in Nat
  BY <1>1, FS_CardinalityType
<1> QED BY <1>2 DEF Listening, Listener, TypeOK

LEMMA InitType == Init => TypeOK /\ ListenersFinite
<1> SUFFICES ASSUME Init PROVE TypeOK /\ ListenersFinite
  OBVIOUS
<1>1. 1 \in Tab
  BY TabAssumption DEF Tab
<1>2. TypeOK
  BY <1>1, TabAssumption, FaultsAssumption DEF Init, TypeOK
<1>3. ListenersFinite
  BY FS_EmptySet DEF Init, ListenersFinite
<1> QED BY <1>2, <1>3

LEMMA BarType ==
    ASSUME TypeOK,
           NewTab \/ \E i \in DOMAIN tabs : SelectTab(i) \/ CloseTab(i)
    PROVE  TypeOK'
<1>1. CASE NewTab
  <2>1. opened + 1 \in Tab /\ opened + 1 \in 0..MaxTabs
    BY <1>1, TabAssumption DEF NewTab, TypeOK, Tab
  <2>2. tabs' \in Seq(Tab) /\ active' \in Nat
    BY <1>1, <2>1 DEF NewTab, TypeOK
  <2>3. connecting' \in Connecting \cup {Idle}
    BY <1>1, RenderedType DEF NewTab, TypeOK
  <2> QED BY <1>1, <2>1, <2>2, <2>3 DEF NewTab, TypeOK, form
<1>2. ASSUME NEW i \in DOMAIN tabs, SelectTab(i) PROVE TypeOK'
  <2>1. connecting' \in Connecting \cup {Idle}
    BY <1>2, RenderedType DEF SelectTab, TypeOK
  <2>2. active' \in Nat
    BY <1>2 DEF SelectTab, TypeOK
  <2> QED BY <1>2, <2>1, <2>2 DEF SelectTab, TypeOK, form
<1>3. ASSUME NEW i \in DOMAIN tabs, CloseTab(i) PROVE TypeOK'
  <2>1. tabs[i] \in Tab
    BY DEF TypeOK
  <2>2. tabs' \in Seq(Tab)
    BY <1>3, RemoveAtSeq DEF CloseTab, TypeOK
  <2>3. active' \in Nat
    BY <1>3, <2>2 DEF CloseTab, TypeOK, ActiveAfter
  <2>4. connecting' \in Connecting \cup {Idle}
    BY <1>3, RenderedType DEF CloseTab, TypeOK
  <2>5. clients' \in [Tab -> Station \cup {None}]
    BY <1>3, <2>1 DEF CloseTab, TypeOK, WithoutClient
  <2>6. <<tabs[i], setup[tabs[i]]>> \in Tab \X (Station \cup {Blank})
    BY <2>1 DEF TypeOK
  <2>7. farewells' \subseteq Tab \X (Station \cup {Blank})
    BY <1>3, <2>6 DEF CloseTab, TypeOK
  <2> QED BY <1>3, <2>2, <2>3, <2>4, <2>5, <2>7 DEF CloseTab, TypeOK
<1> QED BY <1>1, <1>2, <1>3

LEMMA FormType ==
    ASSUME TypeOK,
           \/ \E s \in Station \cup {Blank} : Edit(s)
           \/ Connect
           \/ ClientReady
           \/ WentOnline
           \/ ConnectFails
    PROVE  TypeOK'
<1>1. ASSUME NEW s \in Station \cup {Blank}, Edit(s) PROVE TypeOK'
  BY <1>1 DEF Edit, TypeOK, tasks
<1>2. CASE Connect
  <2>1. Shown \in Tab
    BY <1>2, ShownAtType DEF Connect, IsForm, Shown, TypeOK
  <2>2. connecting' \in Connecting
    BY <1>2, <2>1 DEF Connect, Connecting, TypeOK
  <2> QED BY <1>2, <2>2 DEF Connect, TypeOK, form
<1>3. CASE ClientReady
  <2>1. connecting' \in Connecting
    BY <1>3 DEF ClientReady, Connecting, TypeOK, Idle
  <2> QED BY <1>3, <2>1 DEF ClientReady, TypeOK, form
<1>4. CASE WentOnline
  <2>1. connecting \in Connecting
    BY <1>4 DEF WentOnline, TypeOK, Idle
  <2>2. connecting.tab \in Tab /\ connecting.setup \in Station
    BY <2>1 DEF Connecting
  <2> QED BY <1>4, <2>2 DEF WentOnline, TypeOK
<1>5. CASE ConnectFails
  BY <1>5, FaultsAssumption DEF ConnectFails, TypeOK, form
<1> QED BY <1>1, <1>2, <1>3, <1>4, <1>5

LEMMA StepOfListenerType ==
    ASSUME TypeOK, NEW l \in listeners, NEW step \in {"subscribe", "check", "wait"}
    PROVE  [l EXCEPT !.step = step] \in Listener
BY DEF TypeOK, Listener

LEMMA TaskType ==
    ASSUME TypeOK, ListenersFinite,
           \/ \E t \in Tab : StartListener(t) \/ ListenerStep(t)
           \/ \E l \in listeners : MessageArrives(l) \/ SubscriptionEnds(l)
           \/ \E f \in farewells : SendFarewell(f[1], f[2])
    PROVE  TypeOK'
<1>1. ASSUME NEW t \in Tab, StartListener(t) PROVE TypeOK'
  BY <1>1, ListeningType DEF StartListener, TypeOK, form
<1>2. ASSUME NEW l \in listeners, Subscribe(l) PROVE TypeOK'
  BY <1>2, StepOfListenerType DEF Subscribe, Goes, TypeOK, form
<1>3. ASSUME NEW l \in listeners, CheckTab(l) PROVE TypeOK'
  BY <1>3, StepOfListenerType DEF CheckTab, Goes, TypeOK, form
<1>4. ASSUME NEW l \in listeners, Heartbeat(l) PROVE TypeOK'
  BY <1>4, StepOfListenerType DEF Heartbeat, Goes, TypeOK, form
<1>5. ASSUME NEW l \in listeners, MessageArrives(l) PROVE TypeOK'
  BY <1>5, StepOfListenerType DEF MessageArrives, Goes, TypeOK, form
<1>6. ASSUME NEW l \in listeners, SubscriptionEnds(l) PROVE TypeOK'
  BY <1>6, FaultsAssumption DEF SubscriptionEnds, TypeOK, form
<1>7. ASSUME NEW f \in farewells, SendFarewell(f[1], f[2]) PROVE TypeOK'
  BY <1>7 DEF SendFarewell, TypeOK, form
<1> QED BY <1>1, <1>2, <1>3, <1>4, <1>5, <1>6, <1>7 DEF ListenerStep, ListenersOf

LEMMA FiniteStep ==
    ASSUME ListenersFinite, [Next]_vars
    PROVE  ListenersFinite'
<1>1. \E l : listeners' \subseteq listeners \cup {l}
  <2>1. ASSUME NEW l, NEW step, Goes(l, step)
        PROVE  \E m : listeners' \subseteq listeners \cup {m}
    BY <2>1 DEF Goes
  <2>2. ASSUME NEW t, StartListener(t)
        PROVE  \E m : listeners' \subseteq listeners \cup {m}
    BY <2>2 DEF StartListener
  <2>3. ASSUME NEW l, listeners' = listeners \ {l} \/ UNCHANGED listeners
        PROVE  \E m : listeners' \subseteq listeners \cup {m}
    BY <2>3
  <2> QED
    BY <2>1, <2>2, <2>3
    DEF Next, NewTab, SelectTab, CloseTab, Edit, Connect, ClientReady, WentOnline,
        ConnectFails, ListenerStep, ListenersOf, Subscribe, CheckTab, Heartbeat,
        MessageArrives, SubscriptionEnds, SendFarewell, vars, tasks
<1>2. PICK l : listeners' \subseteq listeners \cup {l}
  BY <1>1
<1>3. IsFiniteSet(listeners \cup {l})
  BY FS_AddElement DEF ListenersFinite
<1> QED BY <1>2, <1>3, FS_Subset DEF ListenersFinite

(* Every variable keeps its type.                                          *)
THEOREM TypeCorrect == Spec => []TypeOK
<1>1. Init => TypeOK /\ ListenersFinite
  BY InitType
<1>2. TypeOK /\ ListenersFinite /\ [Next]_vars => (TypeOK /\ ListenersFinite)'
  <2> SUFFICES ASSUME TypeOK, ListenersFinite, [Next]_vars
               PROVE  TypeOK' /\ ListenersFinite'
    OBVIOUS
  <2>1. CASE UNCHANGED vars
    <3>1. UNCHANGED <<tabs, active, opened, setup, phase, marked, clients, connecting,
                      listeners, farewells, presence, saved, faults>>
      BY <2>1 DEF vars, form, tasks
    <3> QED BY <3>1 DEF TypeOK, ListenersFinite
  <2> QED BY <2>1, BarType, FormType, TaskType, FiniteStep DEF Next
<1> QED BY <1>1, <1>2, PTL DEF Spec

-----------------------------------------------------------------------------
(* The bar: order of the ids, the tab that is shown, clients. *)

BarInv == TabsDistinct /\ IdsInOrder /\ PlaceInBar /\ ConnectedCanSend

LEMMA BarInit == Init => BarInv
<1> SUFFICES ASSUME Init PROVE BarInv
  OBVIOUS
<1>1. DOMAIN tabs = {1} /\ tabs[1] = 1
  BY DEF Init
<1> QED
  BY <1>1
  DEF Init, BarInv, TabsDistinct, Distinct, IdsInOrder, PlaceInBar, ConnectedCanSend,
      Connected

LEMMA NewTabBar ==
    ASSUME TypeOK, BarInv, NewTab
    PROVE  BarInv'
<1>1. /\ tabs \in Seq(Tab) /\ opened \in Nat /\ Len(tabs) \in Nat
      /\ DOMAIN tabs = 1..Len(tabs)
  BY TabAssumption DEF TypeOK
<1>2. /\ tabs' = Append(tabs, opened + 1) /\ opened' = opened + 1
      /\ active' = Len(tabs) + 1 /\ UNCHANGED <<phase, clients>>
  BY DEF NewTab, form
<1>3. /\ DOMAIN tabs' = 1..(Len(tabs) + 1) /\ tabs'[Len(tabs) + 1] = opened + 1
      /\ \A i \in DOMAIN tabs : tabs'[i] = tabs[i]
  BY <1>1, <1>2
<1>4. \A i \in DOMAIN tabs : tabs[i] \in Nat /\ tabs[i] <= opened
  BY <1>1, TabAssumption DEF BarInv, IdsInOrder, Tab
<1>5. TabsDistinct'
  BY <1>1, <1>3, <1>4 DEF BarInv, TabsDistinct, Distinct
<1>6. IdsInOrder'
  <2>1. \A i \in DOMAIN tabs' : tabs'[i] <= opened'
    BY <1>1, <1>2, <1>3, <1>4
  <2>2. \A t \in Tab : t > opened' => phase'[t] = "Setup"
    BY <1>1, <1>2, TabAssumption DEF BarInv, IdsInOrder, Tab
  <2> QED BY <2>1, <2>2 DEF IdsInOrder
<1>7. PlaceInBar'
  BY <1>1, <1>2, <1>3 DEF PlaceInBar
<1>8. ConnectedCanSend'
  <2>1. Range(tabs') = Range(tabs) \cup {opened + 1}
    BY <1>1, <1>2, AppendRange
  <2>2. ASSUME NEW t \in Tab, t \in Range(tabs'), phase'[t] = "Connected"
        PROVE  clients'[t] # None
    <3>1. t # opened + 1
      BY <1>1, <1>2, <2>2 DEF BarInv, IdsInOrder
    <3> QED
      BY <1>2, <2>1, <2>2, <3>1 DEF BarInv, ConnectedCanSend, Connected, Open
  <2> QED BY <2>2 DEF ConnectedCanSend, Connected, Open
<1> QED BY <1>5, <1>6, <1>7, <1>8 DEF BarInv

LEMMA CloseTabBar ==
    ASSUME TypeOK, BarInv, NEW i \in DOMAIN tabs, CloseTab(i)
    PROVE  BarInv'
<1> DEFINE t == tabs[i]
<1>1. /\ tabs \in Seq(Tab) /\ Len(tabs) \in Nat /\ DOMAIN tabs = 1..Len(tabs)
      /\ i \in 1..Len(tabs) /\ active \in Nat
  BY DEF TypeOK
<1>2. /\ tabs' = RemoveAt(tabs, i) /\ active' = ActiveAfter(tabs')
      /\ clients' = [clients EXCEPT ![t] = None] /\ UNCHANGED <<opened, phase>>
  BY DEF CloseTab, WithoutClient
<1>3. /\ tabs' \in Seq(Tab) /\ Len(tabs') = Len(tabs) - 1
      /\ \A j \in 1..(Len(tabs) - 1) : tabs'[j] = tabs[PlaceBefore(i, j)]
  <2>1. /\ RemoveAt(tabs, i) \in Seq(Tab) /\ Len(RemoveAt(tabs, i)) = Len(tabs) - 1
        /\ \A j \in 1..(Len(tabs) - 1) :
               RemoveAt(tabs, i)[j] = tabs[PlaceBefore(i, j)]
    BY <1>1, RemoveAtSeq
  <2> QED BY <1>2, <2>1
<1>4. DOMAIN tabs' = 1..(Len(tabs) - 1)
  BY <1>1, <1>3
<1>5. Distinct(tabs') /\ Range(tabs') = Range(tabs) \ {t}
  BY <1>1, <1>2, RemoveAtRange DEF BarInv, TabsDistinct
<1>6. IdsInOrder'
  <2>1. \A j \in DOMAIN tabs' : PlaceBefore(i, j) \in DOMAIN tabs
    BY <1>1, <1>4 DEF PlaceBefore
  <2> QED BY <1>2, <1>3, <1>4, <2>1 DEF BarInv, IdsInOrder
<1>7. PlaceInBar'
  <2> SUFFICES ASSUME tabs' # << >> PROVE active' \in 1..(Len(tabs) - 1)
    BY <1>4 DEF PlaceInBar
  <2>1. Len(tabs) - 1 > 0
    BY <1>1, <1>3
  <2>2. active \in 1..Len(tabs)
    BY <1>1, <2>1 DEF BarInv, PlaceInBar
  <2> QED BY <1>1, <1>2, <1>3, <2>1, <2>2 DEF ActiveAfter
<1>8. ConnectedCanSend'
  BY <1>2, <1>5 DEF BarInv, ConnectedCanSend, Connected, Open, TypeOK
<1> QED BY <1>5, <1>6, <1>7, <1>8 DEF BarInv, TabsDistinct

LEMMA WentOnlineBar ==
    ASSUME TypeOK, BarInv, WentOnline
    PROVE  BarInv'
<1>1. connecting \in Connecting
  BY DEF WentOnline, TypeOK, Idle
<1>2. connecting.tab \in Tab /\ connecting.setup \in Station
  BY <1>1 DEF Connecting
<1>3. UNCHANGED <<tabs, active, opened>>
  BY DEF WentOnline
<1>4. IdsInOrder'
  <2>1. connecting.tab \in Open => connecting.tab <= opened
    BY DEF BarInv, IdsInOrder, Open, Range
  <2>2. \A t \in Tab : t > opened => phase'[t] = "Setup"
    BY <1>2, <2>1, TabAssumption DEF WentOnline, BarInv, IdsInOrder, TypeOK, Tab
  <2> QED BY <1>3, <2>2 DEF BarInv, IdsInOrder
<1>5. ConnectedCanSend'
  BY <1>2, <1>3, NoneAssumption
  DEF WentOnline, BarInv, ConnectedCanSend, Connected, Open, TypeOK
<1> QED BY <1>3, <1>4, <1>5 DEF BarInv, TabsDistinct, PlaceInBar

LEMMA BarStep ==
    ASSUME TypeOK, BarInv, [Next]_vars
    PROVE  BarInv'
<1>1. ASSUME NEW i \in DOMAIN tabs, SelectTab(i) PROVE BarInv'
  BY <1>1
  DEF SelectTab, form, BarInv, TabsDistinct, IdsInOrder, PlaceInBar, ConnectedCanSend,
      Connected, Open
<1>2. ASSUME UNCHANGED <<tabs, active, opened, phase, clients>> PROVE BarInv'
  BY <1>2
  DEF BarInv, TabsDistinct, IdsInOrder, PlaceInBar, ConnectedCanSend, Connected, Open
<1> QED
  BY <1>1, <1>2, NewTabBar, CloseTabBar, WentOnlineBar
  DEF Next, Edit, Connect, ClientReady, ConnectFails, StartListener, ListenerStep,
      ListenersOf, Subscribe, CheckTab, Heartbeat, MessageArrives, SubscriptionEnds,
      SendFarewell, vars, form

(* A connected tab has its client until it is closed.                      *)
THEOREM ConnectedTabsCanSend == Spec => []ConnectedCanSend
<1>1. Init => BarInv
  BY BarInit
<1>2. TypeOK /\ BarInv /\ [Next]_vars => BarInv'
  BY BarStep
<1>3. BarInv => ConnectedCanSend
  BY DEF BarInv
<1> QED BY <1>1, <1>2, <1>3, TypeCorrect, PTL DEF Spec

(* With tabs open, one of them is on the screen.                           *)
THEOREM OneTabIsShown == Spec => []SomeTabIsShown
<1>1. Init => BarInv
  BY BarInit
<1>2. TypeOK /\ BarInv /\ [Next]_vars => BarInv'
  BY BarStep
<1>3. TypeOK /\ BarInv => SomeTabIsShown
  <2> SUFFICES ASSUME TypeOK, BarInv, tabs # << >> PROVE Shown # None
    BY DEF SomeTabIsShown
  <2>1. active \in DOMAIN tabs
    BY DEF BarInv, PlaceInBar
  <2> QED BY <2>1, ShownAtType, NoneAssumption DEF TypeOK, Shown
<1> QED BY <1>1, <1>2, <1>3, TypeCorrect, PTL DEF Spec

-----------------------------------------------------------------------------
(* Listeners. *)

TaskInv == ConnectingIsSetup /\ ListenersMarked

LEMMA TaskInit == Init => TaskInv
BY DEF Init, TaskInv, ConnectingIsSetup, ListenersMarked

(* What the form runs stays or ends; it is not moved to another tab.       *)
LEMMA BarKeepsTasks ==
    ASSUME TaskInv, connecting' \in {connecting, Idle},
           UNCHANGED <<phase, marked, listeners>>
    PROVE  TaskInv'
BY DEF TaskInv, ConnectingIsSetup, ListenersMarked

(* A task that starts, starts for the form on the screen.                  *)
LEMMA ConnectTasks ==
    ASSUME TypeOK, TaskInv, Connect \/ ClientReady \/ ConnectFails
    PROVE  TaskInv'
<1>1. UNCHANGED <<phase, marked, listeners>>
  BY DEF Connect, ClientReady, ConnectFails, form
<1>2. CASE Connect
  BY <1>1, <1>2 DEF Connect, IsForm, TaskInv, ConnectingIsSetup, ListenersMarked
<1>3. CASE ClientReady
  <2>1. connecting \in Connecting /\ connecting # Idle
    BY <1>3 DEF ClientReady, TypeOK, Idle
  <2>2. connecting'.tab = connecting.tab
    BY <1>3, <2>1 DEF ClientReady, Connecting
  <2> QED BY <1>1, <2>1, <2>2 DEF TaskInv, ConnectingIsSetup, ListenersMarked
<1>4. CASE ConnectFails
  BY <1>1, <1>4, BarKeepsTasks DEF ConnectFails
<1> QED BY <1>2, <1>3, <1>4

(* A tab that becomes connected has no listener yet.                       *)
LEMMA WentOnlineTasks ==
    ASSUME TypeOK, TaskInv, WentOnline
    PROVE  TaskInv'
<1>1. phase[connecting.tab] = "Setup" /\ connecting \in Connecting
  BY DEF WentOnline, TaskInv, ConnectingIsSetup, Idle, TypeOK
<1>2. \A l \in listeners : l.tab # connecting.tab
  BY <1>1 DEF TaskInv, ListenersMarked
<1>3. UNCHANGED listeners /\ connecting' = Idle
  BY DEF WentOnline
<1>4. \A l \in listeners : marked'[l.tab] = marked[l.tab] /\ phase'[l.tab] = phase[l.tab]
  BY <1>2 DEF WentOnline, TypeOK, Listener
<1> QED BY <1>3, <1>4 DEF TaskInv, ConnectingIsSetup, ListenersMarked

(* The effect starts a listener for an unmarked tab, and marks it.         *)
LEMMA StartListenerTasks ==
    ASSUME TypeOK, TaskInv, NEW t \in Tab, StartListener(t)
    PROVE  TaskInv'
<1>1. phase[t] = "Connected" /\ ~marked[t]
  BY DEF StartListener, NeedsListener, Connected
<1>2. \A l \in listeners : l.tab # t
  BY <1>1 DEF TaskInv, ListenersMarked
<1>3. UNCHANGED <<phase, connecting>> /\ marked' = [marked EXCEPT ![t] = TRUE]
  BY DEF StartListener, form
<1>4. listeners' \subseteq listeners \cup {Listening(t)} /\ Listening(t).tab = t
  BY DEF StartListener, Listening
<1>5. \A l \in listeners \cup {Listening(t)} : marked'[l.tab] /\ phase'[l.tab] = "Connected"
  BY <1>1, <1>2, <1>3, <1>4 DEF TaskInv, ListenersMarked, TypeOK, Listener
<1>6. \A l, m \in listeners \cup {Listening(t)} : l.tab = m.tab => l = m
  BY <1>2, <1>4 DEF TaskInv, ListenersMarked
<1> QED BY <1>3, <1>4, <1>5, <1>6 DEF TaskInv, ConnectingIsSetup, ListenersMarked

(* A listener goes on as itself, or ends.                                  *)
LEMMA ListenerGoesOn ==
    ASSUME TypeOK, TaskInv, NEW l \in listeners,
           \/ \E step \in {"check", "wait"} : Goes(l, step)
           \/ listeners' = listeners \ {l},
           UNCHANGED <<phase, marked, connecting>>
    PROVE  TaskInv'
<1>1. \A step : [l EXCEPT !.step = step].tab = l.tab
  BY DEF TypeOK, Listener
<1>2. PICK n : n.tab = l.tab /\ listeners' \subseteq (listeners \ {l}) \cup {n}
  BY <1>1 DEF Goes
<1> QED BY <1>2 DEF TaskInv, ConnectingIsSetup, ListenersMarked

LEMMA TaskStep ==
    ASSUME TypeOK, TaskInv, [Next]_vars
    PROVE  TaskInv'
<1>1. ASSUME NewTab \/ \E i \in DOMAIN tabs : SelectTab(i) \/ CloseTab(i)
      PROVE  TaskInv'
  <2>1. connecting' \in {connecting, Idle}
    BY <1>1, RenderedType DEF NewTab, SelectTab, CloseTab
  <2> QED BY <1>1, <2>1, BarKeepsTasks DEF NewTab, SelectTab, CloseTab, form
<1>2. ASSUME NEW l \in listeners,
             Subscribe(l) \/ CheckTab(l) \/ Heartbeat(l) \/ MessageArrives(l)
               \/ SubscriptionEnds(l)
      PROVE  TaskInv'
  <2>1. UNCHANGED <<phase, marked, connecting>>
    BY <1>2 DEF Subscribe, CheckTab, Heartbeat, MessageArrives, SubscriptionEnds, form
  <2>2. (\E step \in {"check", "wait"} : Goes(l, step)) \/ listeners' = listeners \ {l}
    BY <1>2 DEF Subscribe, CheckTab, Heartbeat, MessageArrives, SubscriptionEnds
  <2> QED BY <2>1, <2>2, ListenerGoesOn
<1>3. ASSUME UNCHANGED <<phase, marked, connecting, listeners>> PROVE TaskInv'
  BY <1>3, BarKeepsTasks
<1> QED
  BY <1>1, <1>2, <1>3, ConnectTasks, WentOnlineTasks, StartListenerTasks
  DEF Next, Edit, ListenerStep, ListenersOf, SendFarewell, vars, form, tasks

(* No inbox is read by two listeners of one tab, or for a form.            *)
THEOREM InboxesReadOnce == Spec => []OneListenerEach
<1>1. Init => TaskInv
  BY TaskInit
<1>2. TypeOK /\ TaskInv /\ [Next]_vars => TaskInv'
  BY TaskStep
<1>3. TaskInv => OneListenerEach
  <2> SUFFICES ASSUME TaskInv, NEW t \in Tab
               PROVE  /\ Cardinality(ListenersOf(t)) <= 1
                      /\ ListenersOf(t) # {} => phase[t] = "Connected"
    BY DEF OneListenerEach
  <2>1. ListenersOf(t) = {} \/ \E l : ListenersOf(t) = {l}
    BY DEF TaskInv, ListenersMarked, ListenersOf
  <2>2. Cardinality(ListenersOf(t)) <= 1
    BY <2>1, FS_EmptySet, FS_Singleton
  <2> QED BY <2>2 DEF TaskInv, ListenersMarked, ListenersOf
<1> QED BY <1>1, <1>2, <1>3, TypeCorrect, PTL DEF Spec
=============================================================================
