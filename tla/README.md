# OpenLink: specifications, model checks and proofs

OpenLink carries CPDLC (controller-pilot data link) between simulated aircraft
and ground stations over NATS.  Clients publish to their *outbox*; one server
per network reads all outboxes, keeps the CPDLC sessions and the presence of
stations in JetStream KV buckets, and forwards to *inboxes*.  These modules
model the server (who may hold an aircraft's connection, who is online, what
clients are shown), the GUI client (its tabs and tasks, its inbox listener, its
three screens, the numbering and the rules it takes from the Rust SDK), the web
client with the TypeScript SDK under it, and the bridge to the Hoppie network.  All paths below are relative to the repository.

## 1. Inventory

| Component | State it keeps | Operations | Properties that make it correct |
|---|---|---|---|
| Session state machine, session store (`openlink-server/src/acars.rs`) | KV bucket: one session per aircraft address (active and inactive connection, next data authority) | meta messages (logon, connection, forward), application messages with UM160/UM161, termination of a station | two slots with a fixed meaning; the current data authority is only succeeded by promotion; a failed or interrupted call leaves a session it could have been in |
| Station registry (`station_registry.rs`) | KV bucket of station entries, KV bucket callsign → station id | `update_status`, `lookup_callsign`, `expire_stale_online` | a lookup finds an online station that uses the callsign; online stations are found; lapsed leases are noticed |
| Message loop (`server.rs`, `main.rs`) | nothing but the above | one `select!` over messages and the presence ticker; broadcasts, snapshots, end of sessions | clients are shown the sessions they take part in as they are; a client that vanishes is released |
| Rust SDK (`openlink-sdk`) | MIN sequence per pair of callsigns | builds and sends messages, decides what is acknowledged and which answers are offered | every message is acknowledged once; acknowledgements end; a reference means one message |
| GUI client: tabs and connection (`openlink-gui/src/main.rs`, `state.rs`, `station_setup.rs`, `tab_bar.rs`, `nats_client.rs`) | tabs, their setups and clients, marks for started listeners, presets | open, set up, connect, select and close a tab; an effect that starts listeners; farewells | one listener for every connected tab; a connected tab can send; a closed tab is silent |
| GUI client: inbox listener (`main.rs:173-570`) | per tab: rows, session shown, ATC's flights | acknowledge, answer connection requests and logon forwards, log on after UM117, store a row, follow session updates | acknowledged before the row is shown, once; what it changes under the user's hands leaves the screen consistent |
| GUI screens (`dcdu_view.rs`, `a320_view.rs`, `atc_view.rs`, `shared.rs`) | per tab or per view: composer, popover, draft, selection, template | logon, answers, compositions with parameters, draft transfer, queue of requests | an answer refers to the message it answers; nothing leaks from one composition into the next; no request is lost |
| Web client: hook (`clients/a320-mcdu-dcdu/src/hooks/useOpenLink.ts`) on the TypeScript SDK (`clients/openlink-sdk-ts`) | connection, heartbeat timer, session, list of messages with a status each, MIN sequences, promises of what was published | connect, disconnect, handle a message, answer, transfer and send drafts, log on | no message stays shut off; an uplink is answered once; after the farewell nothing says ONLINE; a message is handled once |
| Web client: screens (`DcduScreen.tsx`, `McduScreen.tsx`, `App.tsx`) | the place browsed to, the composition | browse, answer, send, compose, erase, transfer, notify | every message and draft can be reached; keys act on what is shown |
| Hoppie bridge (`openlink-hoppie`) | MIN counters and maps, sets of seen messages | poll and relay, subscribe and relay | nothing relayed twice; references resolve; no acceptance without a connection; bridged aircraft stay reachable |
| Models (`openlink-models`) | none | catalogue with response attributes, closing rules, builders, serialisation | pure functions |
| Auth service, mock OIDC, CLI, load test, website | none of the protocol | sign tokens, drive the SDK | outside the protocol |

How they interact: clients and bridge → NATS outbox → message loop → registry
(`update_status`, lookups) and store (`handle_cpdlc_message`,
`terminate_sessions_for_station`) → inboxes.  The loop is the only writer of
the buckets of its network and finishes one message or one sweep before it
takes the next; networks share nothing.

What is hard: a handler is a sequence of KV operations, each of which may fail
or be the last before a restart (errors are logged and the loop goes on); two
connections per aircraft are reached by many orders of legal messages, several
by both the aircraft and two stations; presence depends on a clock, a sweep and
heartbeats that race with it; SessionUpdates reach only those who listen at
that moment and are found in the index at that moment.  In the client, the listener
shares a tab's rows, session and numbering with a screen whose buttons are
pressed while it waits for the network; peers number their messages per pair
and start over, so one MIN may be on the screen twice; views refer to rows and
flights by MIN or by place; tabs are closed while their form is connecting or
their listener subscribing.  In the web client, every send is a promise that
settles after other messages, keys and failures of the connection, and then
writes to the row it was pressed on.  `PROJECT.json` lists the hazards line by line.

## 2. Modules

| Module | Models |
|---|---|
| `CPDLCSession` | data and pure transition functions of `CPDLCConnection` and `CPDLCSession`, and the views made of them |
| `CPDLCServer` | the session bucket and the handlers: one action per meta message, an application message as start / element / store, a termination as start / session / return, `Abort` |
| `DataAuthority` | the abstract specification: each aircraft has a line of at most two stations |
| `CPDLCServerProperties` | invariants, action property, refinement mapping to `DataAuthority`, what does not hold |
| `CPDLCServerProofs` | theorems about `CPDLCServer`, and that it implements `DataAuthority` |
| `StationRegistry` | the two registry buckets, leases, the sweep; each call with every way it can stop short |
| `StationRegistryProperties`, `StationRegistryProofs` | its properties and theorems |
| `OpenLinkServer` | the loop: instances of the store and of the registry, clients that listen and vanish, what they are shown; one action per branch of the loop and step of a handler |
| `OpenLinkServerProperties` | views, release of vanished clients, repair by heartbeats, fairness |
| `OpenLinkServerProofs` | theorems about the loop, from instances of the proofs about the store and the registry |
| `ResponseCatalogue` | the registry by response attribute, which answers a message offers, what closes a dialogue, what is acknowledged, the keys of the DCDU |
| `StationTab` | one connected tab: the inbox listener, the rows, the numbering; the peers are its environment |
| `DcduView`, `A320View`, `AtcView` | the three screens, each over `StationTab`: every button that changes the tab or sends |
| `GuiTab` | the composition of listener and screens |
| `GuiTabProperties`, `GuiTabProofs` | its properties and theorems |
| `GuiApp` | tabs, the task of the setup form, listeners as tasks, farewells, presence as the network was told |
| `GuiAppProperties`, `GuiAppProofs` | its properties, its fairness, its theorems |
| `WebClient` | the web client's hook: connection, promises, handling of messages, what the screens call; stations, server and the NATS library are its environment |
| `WebScreens` | its screens, and the composition of both |
| `WebProperties`, `WebProofs` | its properties, its fairness, its theorems |
| `PlaceLemmas` | lemmas about places in a sequence, for the proofs about both clients |
| `HoppieBridge`, `HoppieBridgeProperties` | the bridge's task: polls, packets, envelopes, numbering and duplicates; pilots, controllers and server are its environment |
| `HoppieBridgeProofs` | theorems about the bridge |
| `MC*` | the small instances TLC checks |

### Correspondence with the code

* `sessions[a]` is the bucket entry of address `a` (`None`: absent).  A session
  is a record with the fields of `CPDLCSession`; a station is its callsign,
  because the code always builds stations with an empty address and compares
  callsigns.
* `call` is the handler in progress (an application message's private copy of
  the session with the elements still to apply, or the sessions a termination
  has still to visit), `reply` what it returned to the loop and the loop has not
  dealt with.  A meta message is one read and one write of one key, with no
  writer in between, hence one action.
* `registry`, `index` are the buckets, `age` is the time since `last_updated`
  in ticks of a clock, capped just above the lease, `sweep` the list a running
  `expire_stale_online` works on.  `Ttl` is the lease in ticks; `Ttl = 0` is a
  clock so coarse that the next tick is late.
* A fault is a KV operation that fails, or the server stopping there.  In
  `update_status` it leaves any prefix-closed part of the writes (the two
  deletes may fail unnoticed, `.ok()`); in the store it is `Abort`; in the loop
  `CallFails` is the error path and `Crash` the restart, which loses `call`,
  `reply`, `sweep` and `offline` and keeps the buckets.  `MaxFaults` bounds how
  many of them happen in the runs; the proofs hold for any number.  It may also
  be a lookup or a send of a broadcast: it is logged, the clients it was for
  keep the view they had and the others are told (`TellRoutedFault`,
  `TellTerminatedFault`); or a step of the snapshots sent to a client that comes
  online: the rest of them is not sent (`SyncFault`).
* `views[i][a]` is the last SessionUpdate about `a` that client `i` was sent
  while it listened.  `joined` are the clients that came online since they
  listen, `offline` the stations marked offline whose sessions the loop ends
  next.
* Station ids: the SDK's status builder (`message_builder.rs:429-480`) makes a
  client's network address its station id, so one value stands for both.
* Callsigns are compared exactly by the session code and in upper case by the
  index; `IndexKey` is that conversion.
* In `HoppieBridge` a handler is one action that a failed request may make stop
  short after any of its requests: the bridge has one task, and nothing it
  waits for reads its state.  `polling` and `batch` are the rest of a tick.
  `published` and `told` are histories; `answers`, `origin` and `for` in them say
  what the code does not keep: which controller's message a packet is about
  and which envelope caused it.
* In `StationTab` a row is a `ReceivedMessage` without its text, an element is
  its id, a peer a number (callsigns are sorted in the traffic list).  A click
  runs to its end on the one thread of the user interface, so it is one action;
  the listener gives way while it publishes, so receiving is `Receive` (the
  acknowledgement is numbered and sent), `LogOnToUnit` (after UM117) and
  `StoreRow`, with clicks in between.  `sent` is a history, in publishing order.
* `dcdu`, `a320` and `atc` are what each screen keeps; what a screen works out
  from the rows at every rendering (visible rows, keys, the queue, the marks of
  the log) is an operator.  `RootOf` is a recursive function over the rows in
  place of the loop that fills a map of roots; `Cards` are the cards that have
  buttons.
* In `GuiApp` a task is a record with its next await as `step`.  The task of the
  setup form is dropped with the form, at any await; listeners and farewells are
  not.  A listener keeps the setup it was started with.

* In `WebClient` a handler of JavaScript runs to its await as one action, and
  what follows the await is `Settle`.  `pending` are the publishes whose flush is
  awaited: NATS answers flushes in order (`Flushed`), and those of a connection
  that broke, closed or drains are rejected (`lost`, `FlushFailed`).  A row is a
  `DcduMessage` without its text; its place in the list stands for its id, since
  the list only grows until it is cleared.  `subs` are the connections whose
  inbox is listened to: one more for every attempt that failed after
  subscribing; `delivery` is a message that several of them receive in turn.
  Keys act on the list as it is: React renders, and brings `dcduMessagesRef` up
  to date, before the next key or message.  Key presses on DISCONNECT while
  OFFLINE is awaited only repeat it and are left out.  The pages of the MCDU
  lead to keys, and any key is a few presses away.

Abstracted: text (uppercasing of free text, formatting, logging), the forwarded
envelopes, correlation ids, timestamps other than lease ages.  `get_status` has
no caller.  Two servers on one network (KV conflicts) are not modelled: the
server's clean start and its sweeps assume it is alone.

Left out on the clients, each at its definition too: a publish fails only when
the task of the NATS connection is gone, and then nothing is received either, so
an acknowledgement that could not be sent (`main.rs:488`, logged, the row is
stored) does not occur in `Receive` and `AcksMatch` speaks of publishes that
succeed; the await between a listener's publish and its change of state where
no property tells the two orders apart (`ReceiveLogonForward`,
`ReceiveConnectionRequest`); the moment between a click on LOGON and its task,
which resets the numbers (`dcdu_view.rs:249`; `Logon` resets them at the click);
a connection that breaks while it drains (`Break`), where the library ends the
drain all the same (`Drained`).

## 3. Runs

| Run | Instance | Expected | Shows |
|---|---|---|---|
| `cpdlc_store` | 2 aircraft, 2 stations (one shared), bodies with UM160, UM161, two of them, MINs 0, 1, 63, 64 | pass | `TypeOK`, `SlotsWellFormed`, `HandoverByPromotion`, `ImplementsDataAuthority` |
| `cpdlc_terminate` | 1 aircraft, 2 stations | violation | `StationLeavesEverySession`: a station logged on to twice survives its termination |
| `registry` | 2 stations, 4 callsigns in 2 keys, lease of 2 ticks, 2 faults | pass | `TypeOK`, `IndexSound`, `IndexComplete`, `LapsedGoesOffline` |
| `server_one` | 1 aircraft, 1 station, both come and go, lease of 1 tick, 1 fault | pass | `TypeOK`, `ViewsCurrent`, `VanishedAreReleased`, `HeartbeatsRepairViews` |
| `server_views` | 1 aircraft, 2 stations, handovers | pass | `ViewsCurrent` |
| `server_ghost` | as `server_views` | violation | `NoGhostConnection` |
| `hoppie` | 1 pilot, 1 station, 2 MINs, 3 packets, 2 envelopes, 1 repeat, 1 fault, sets of 1 seen message | pass | `TypeOK`, `AnswersResolve`, `MinsReusedLast`, `AcceptanceIsBacked`, `RelayedOnce` |
| `gui_pilot` | DCDU and A320 screen, 1 station that instructs, hands over, acknowledges and starts over; 3 MINs, 2 arrivals | pass | `TypeOK`, `AcksMatch`, `CompositionIsClean`, `DraftStaysOpen` |
| `gui_atc` | ATC screen, 2 aircraft with equal MINs that come and go; 3 MINs, 2 arrivals | pass | `TypeOK`, `AcksMatch`, `SelectedIsAFlight`, `ReplyKeepsItsTarget`, `RequestsAreQueued` |
| `tabs` | 2 tabs, 2 stations, 1 failure | pass | `TypeOK`, `OneListenerEach`, `ConnectedCanSend`, `SomeTabIsShown`, `ClosedFallSilent`, `ConnectedAreServed` |
| `web` | 1 station, reports and acknowledgements, 3 MINs, 2 connections, 1 fault, 1 draft; 5 events | pass | `TypeOK`, `TransientIsAwaited`, `AnsweredOnce`, `FarewellIsLast`, `HeardOnce`, `ReopenedByItsAnswer`, `DisconnectEnds` |
| `web_draft` | 1 station that sends questions, 2 drafts, no fault | violation | `DraftsAreWithinReach` |

What the properties say:

* `SlotsWellFormed`: sessions are filed under their own address, never have an
  inactive connection without an active one, and no connection is established
  without a logon, in the bucket and in drafts.
* `HandoverByPromotion`: in one write, the active connection stays (and does
  not go back in its establishment), gives way to the inactive one, or goes
  away; nobody displaces it.
* `ImplementsDataAuthority`: the store, with slots, drafts and interrupted
  calls, takes only steps of the abstract line: ask, advance, leave, and, under
  a connected head, designate.  Both slots of a session are the line; the draft
  is invisible until it is written.
* `IndexSound`, `IndexComplete`: before the first fault, lookups find online
  stations that use the callsign, and a station that is the only user of its
  callsign is found, in whatever spelling, across changes of callsign.
* `LapsedGoesOffline`: a lapsed lease is noticed, whatever fails on the way.
* `ViewsCurrent`: at every `select!`, before the first fault, each client that
  came online after it subscribed holds the current view of every session it
  takes part in, whoever changed it.
* `VanishedAreReleased`: without faults, a client that vanishes is in the end
  connected to no aircraft.
* `HeartbeatsRepairViews`: with faults, updates that miss it included, a client that stays and keeps sending
  heartbeats is again and again online and shown its sessions as they are.  The
  lease of one tick matters: with none, fair sweeping would end every session
  in time for the property to say nothing.
* `AnswersResolve`: a pilot's answer arrives with the MIN of the controller's
  message it answers.  It holds because the map is from the bridge's MINs to
  themselves and uplinks keep theirs: recording the pilot's own MINs, as the
  map's comment says (`session.rs:36`), would break it.
* `MinsReusedLast`: between two texts of a pair with one MIN all others were
  used (a failed request may account for one of them).
* `AcceptanceIsBacked`, `RelayedOnce`: a pilot told of an accepted logon has a
  connection requested and accepted before, once per envelope, until the set of
  seen envelopes is emptied.
* `AcksMatch`: for each peer and MIN, as many acknowledgements were sent as
  messages with that MIN were received that call for one, counting the message
  the listener is busy with; so none is acknowledged twice or not at all, and
  acknowledgements are not acknowledged, across wraps and restarts of the
  numbering and whatever the user does meanwhile.
* `CompositionIsClean`: the composer of the classic screen, which lives in the
  tab while the popover comes and goes with clicks and with the session, holds
  no element or reference of an earlier composition when it is not in use.
* `DraftStaysOpen`: a draft on the A320 DCDU that waits while newer uplinks
  take the place of the one it answers still answers an open one; the keys
  under a draft do not answer.
* `SelectedIsAFlight`: the selection is a place in a list that the listener
  changes; it never points past its end.
* `ReplyKeepsItsTarget`: the MIN a composition refers to and the aircraft it is
  for are set and given up together, and belong to one row.
* `RequestsAreQueued`: a request that nothing refers to, and whose MIN no other
  row of that aircraft has, has a card with buttons for its aircraft, whatever
  other aircraft sent under the same MIN.
* `OneListenerEach`, `ConnectedCanSend`, `SomeTabIsShown`: no inbox is read
  twice although the effect that starts listeners runs at every change; a
  connected tab keeps its client although tabs are closed by place and clients
  found by id; something is shown as long as there are tabs.
* `ClosedFallSilent`: the listener of a closed tab stops.
* `ConnectedAreServed`: without failures, a connected tab is listened to in the
  end, shown or not.  (After a failed subscription it stays marked and is never
  listened to again.)

* `TransientIsAwaited`: an uplink that is being answered and a draft that is
  being sent, whose keys are off, have a promise that will settle.
* `AnsweredOnce`: without faults, an uplink gets one answer, or STANDBY and one
  other, although the station closes dialogues while answers are under way.
* `ReopenedByItsAnswer`: a closed uplink only asks again when the pilot's own
  answer was under way at that moment; closing, replies and other promises
  never reopen it.
* `FarewellIsLast`: from the OFFLINE on, until the pilot connects anew, no
  heartbeat says ONLINE, whatever fails.
* `HeardOnce`: without faults, one listener while connected, none afterwards,
  and so one acknowledgement for each message.
* `DisconnectEnds`: leaving ends at the form, whatever arrives and is pressed,
  unless the connection was closed for good.

Every property of a passing run has a mutant of the code in `PROJECT.json`
(operators marked "variant" in the modules) that breaks it.

### Bounds

Two stations are enough for a slot to be contended, displaced, promoted and
handed over; the second aircraft makes a termination visit two sessions and
be interrupted between them.  It meets one of the stations only, and only EGLL
is designated, which halves nothing but symmetric handovers.  Bodies have up
to three elements: elements act one at a time, so a longer one repeats the
same steps.  One routing per pair is what the SDK can produce; a station never
writes with its own callsign as the aircraft's.  The registry needs two
stations for sharing and one station with two spellings and a third callsign
for every change of the index; two faults let a failure hit the repair of
another.  In `server_views` the constraint `OneAway` bounds the search: once
there is a session its aircraft stays and at most one station is away at a
time; `server_one` has no such constraint.  In `hoppie`, three packets
are a logon, a text and an answer to an uplink with a MIN in use on both sides,
or three texts that wrap two MINs around; with sets of one message, the second
one empties them.  `Relogon = FALSE` in the loop's
instances leaves out aircraft that log on to a station that holds a slot
already, which is what `cpdlc_terminate` is about; the store's instances
include it.

In the GUI's runs `MaxMin` is 3 in place of 63, so that numbering wraps and
meets rows that are still on the screen; two arrivals are an uplink and a
newer one, or a message and its late acknowledgement, in every order with the
clicks.  A pilot sends at most one message on the classic screen and two on the
A320 screen (a draft needs an answer to compete with), a controller one; compositions have at most one element before the one that is added
when sending.  `MaxRenumber = 1` lets a peer start its numbering over once.  The
instances' menus hold a downlink with and one without parameters.  The real
menu of the classic screen also offers DM100 by hand (`dcdu_view.rs:165`); a
pilot who picks it with a reference acknowledges twice, and `AcksMatch` is
about clients that leave acknowledging to the listener.  The tabs' run opens two
tabs over time, which is what it takes to close one beside the one that is
shown, and has one failure.

In `web`, `MaxEvents = 5` bounds arrivals, sends, connections and faults
together (each also has a bound of its own), while session updates, flushes,
heartbeats and browsing are free.  Five are what the longest of the
hazards takes: connect, an uplink, a draft that replies to it, an answer that
is under way, and the station's reply that closes the dialogue; or connect, a
break, connect again and a message two listeners receive.  Three MINs wrap.

### Fairness

`ServerFairness`: a step in progress is carried on (weak fairness: nothing else
can run on the loop's task), and the presence ticker is served although
messages keep coming (strong fairness: `tokio::select!` picks its branches at
random, so a tick that is always pending is taken in the end, but not at every
moment the loop is free), and time passes.  Nothing is assumed of clients,
except, inside `HeartbeatsRepairViews`, that the client in question sends the
heartbeat that the GUI, the web client and `stations-presence.md` prescribe.
For the registry alone, `FairSpec` is the same with weak fairness, since there
a pending sweep is never disabled but by a call.

In `GuiAppProperties`, `FairSpec` says that the executor goes on with every task
that can (the effect runs after a change, listeners take their steps) and that
the heartbeat ticks, which wakes every listener that waits.  Nothing is assumed
of users, of messages, of the task that connects or of farewells.

In `WebProperties`, `FairSpec` says that promises settle and that a drain ends:
NATS answers a flush, or the library gives the connection up and rejects it.
Nothing is assumed of the pilot, of messages or of the heartbeat.

The bridge and the tab with its screens are checked for safety only and need no
fairness.

## 4. What does not hold

Each of these is a run that finds a counterexample, listed under `findings`.

* **A doubled logon survives termination** (`acars.rs:118`, `:207`).  A logon
  request of the station in the active slot puts it into the inactive slot as
  well; ending the station removes one of them and promotes the other.
* **Ghost connections** (`server.rs:441`).  A station that comes back is sent
  snapshots of the sessions it is in, and nothing about those it was taken out
  of, so it keeps showing them.
* **A draft out of reach** (`DcduScreen.tsx:202`).  A message whose MRN is the
  MIN of some uplink is shown under that uplink only.  The answer to the pilot's
  request refers to the pilot's MIN, which an unrelated uplink may have as
  well: the answer is hidden under it, and the draft that replies to the answer
  is hidden twice and shown nowhere, although the pilot "can then review it and
  press SEND" (`useOpenLink.ts:566`).

Seen on the way, and not made into a run.

In the server:

* a refused or unanswered logon keeps the active slot until that station
  terminates, and the station connected next gets an inactive connection over
  which nobody can talk (`acars.rs:120`; `docs/acars-ref-gold/logon_connection.md:26`
  makes the first connection the active one);
* an application message needs an active connection, not that the sender holds
  it (`acars.rs:421`; `logon_connection.md:5`);
* `terminate_sessions_for_station` also reports the sessions a callsign owns as
  an aircraft although it does not change them (`acars.rs:722`);
* a session is filed under the aircraft's address and keeps the callsign it was
  made with (`acars.rs:518`): under another one the aircraft is shown nothing;
* of two stations with one callsign, the one that leaves deletes the key of the
  other (`station_registry.rs:179`, against `:112`); a key whose deletion failed
  once stays for ever (`:182`, against `:169`);
* expired stations are marked offline before their sessions are ended; after a
  failure in between nobody ends them (`server.rs:233`,
  `station_registry.rs:226`, against `openlink-server/README.md:72`).

In the GUI:

* the log looks for an acknowledgement of the uplink's MIN from anybody, and
  MINs are counted per aircraft, so one aircraft's acknowledgement marks the
  uplink to another (`atc_view.rs:71`, against `:69`);
* the listener of a closed tab learns of it at the top of its loop: its next
  heartbeat reports the station online again after the farewell, until the
  lease expires (`main.rs:203`, against `:77`);
* an answer on the classic screen closes the first row with its MIN
  (`dcdu_view.rs:96-112`, `:829`), which is an old one after a station started
  over; the row that was answered keeps its buttons;
* an aircraft's STANDBY to an uplink gives the controller a card that answers
  his own MIN (`atc_view.rs:323`);
* `compose_flight` falls back to the selection when the aircraft that is
  answered has left (`atc_view.rs:932`), and a selection by place shows another
  flight when the list shifts;
* the setup form stays editable while it connects, so the listener, which reads
  the form again, may send heartbeats for another station than the one that
  went online (`main.rs:37-38`); the task that connects is dropped with the
  form, after ONLINE at worst;
* pending elements and draft of the A320 screen belong to the view
  (`a320_view.rs:240-252`), which stays from one A320 tab to the next;
* MSG-, MSG+ and NOTIFY of that screen do nothing;
* `cpdlc.rs:236` documents R as "Roger / Unable / Standby", and `for_attribute`
  offers no UNABLE for it.

In the web client:

* an answer that is under way when the station closes the dialogue sets the
  status of its row when it settles: STANDBY, or a rejected answer, reopens a
  closed dialogue (`useOpenLink.ts:539`, `:549`);
* after STANDBY, another answer that is rejected makes the uplink open as new,
  and STANDBY is offered again (`useOpenLink.ts:552`, against
  `DcduScreen.tsx:269`);
* SEND works again on a linked draft that is being sent (`DcduScreen.tsx:297`);
* a draft is linked to an uplink when it is transferred and sent to the station
  that is active when it is sent (`useOpenLink.ts:577`, `:623`), which after a
  handover is not the one that asked;
* a connection that fails after it subscribed keeps its listener
  (`useOpenLink.ts:354`), and every message is then handled and acknowledged
  once more;
* when the connection was closed for good, the drain is refused and
  DISCONNECT never returns to the form (`useOpenLink.ts:417`);
* the key for GROUND TRK asks for a heading (`McduScreen.tsx:426`).

In the bridge: a controller's answer to a pilot refers to the bridge's MIN,
which the pilot never saw (`bridge.rs:198`, against "correct dialogue
correlation" in `openlink-hoppie/README.md:11`); a pilot who restarts and sends
the same `REQUEST LOGON` again is taken for a duplicate (`bridge.rs:137`); in
`ground` mode the answers of controllers are thrown away (`bridge.rs:99`); all
aircraft are registered under one station id, so the next one takes the
callsign of the last out of the index (`bridge.rs:164`), and no lease is ever
renewed (`bridge.rs:171`).

## 5. Proofs

`CPDLCServerProofs` (for any aircraft, stations, routings, bodies and MINs, and
any number of failures):

* `TypeCorrect`, `SessionsWellFormed`: `Spec => []TypeOK`, `[]SlotsWellFormed`;
* `HandoverOnlyByPromotion`: `Spec => HandoverByPromotion`.

The inductive invariant joins three facts the properties do not mention.
`DraftOf`: what an application message has applied so far leaves its sender in
both slots, or takes it out of one or of both; without it nothing is known of
the final write, which may come after any number of elements.  `ApplicationFits`: the bucket still holds the session the draft was
taken from.  `TerminateFits`: the sessions a termination has still to visit
exist.  The proof has one lemma per transition function, lifts them to one
lemma per handler, and the theorems combine the steps of `Next`.  The third
case of `Succeeds`, the active connection gone together with a second one of
the same station, is what a message with two UM161 elements leaves behind.

In its second half: `ImplementsAuthority`, `Spec => ImplementsDataAuthority`.  The invariant is the one above and
`DraftReady`: the session that a draft will replace still has a connected
head, so the write at the end of an application message is a `Command`.  The
argument goes function by function: `EnterLine` and `NoPlace` (who enters joins
at the end), `ActiveMoved` and `InactiveMoved` (an answer promotes the first
place of its station), `TerminationLine` and `DraftLine` (who leaves gives up
its first place, a draft up to two); then from one session to the bucket
(`WrittenLine` and the lemmas after it), then one lemma per handler.

`StationRegistryProofs` (for any stations, callsigns, spellings, leases and
fault budget): `TypeCorrect`, `IndexIsSound`, `IndexIsComplete`.  The
strengthening is `EntriesLicensed` (registered callsigns are among those the
station uses; without it nothing separates two stations' keys) and `SweepFits`
(stations still to be swept are online).

`OpenLinkServerProofs` (for any clients, callsigns, routings, bodies, leases,
faults and restarts) takes an instance of each of the two proof modules above and
shows that a step of the loop is, to the store, a step of `CPDLCServer`, none,
the loss of the call in progress, or one of a reply's sessions told
(`StoreForms`), and to the registry a step of `StationRegistry`, a fault that
leaves the buckets alone, or a heartbeat whose snapshots fail (`RegistryStep`,
`SyncRegistry`).

* `TypeCorrect`; `PartsAlwaysGood`, `HandoverInTheLoop`,
  `LoopImplementsAuthority`: what the store and the registry promise by themselves
  they promise in the loop.  A restart forgets the draft of an application message
  and so does not break the refinement.
* `ViewsAlwaysCurrent`: `Spec => []ViewsCurrent`, under two hypotheses on the
  constants.  `LoopInv` says what is true between the two ends of a handler:
  a call in progress has no result yet (`OneAtATime`), what is to be told of a
  session is the session as it is stored (`ToldInv`), no station holds both
  slots (`SlotsOf`), and a client has the current view of an aircraft or that
  aircraft is still to be broadcast (`ViewsOf`).  The core is `TellViews`: whoever
  takes part in the new session is in the audience of its broadcast, is found
  under its callsign, and the callsign found for it is its own.
* The hypotheses say where the code keeps this promise.  `OwnCallsigns`: no two
  clients use one callsign, and none has two spellings; a lookup finds one station
  per callsign, so of two that share it one misses the broadcast.  `~Relogon`:
  no aircraft logs on to a station it is with; a station in both slots loses one
  and its view is made from the other (the finding on `acars.rs:671`).  The
  instance of the run satisfies both; `MCOpenLinkServer` assumes `OwnCallsigns`, so
  TLC evaluates it.
* `ConcernedAlwaysCurrent` has neither hypothesis.  Take any set of aircraft of
  which, in the behaviour at hand, no station ever holds both slots
  (`[]SlotsOf(A)`): each client with a callsign for itself has the current views
  of these aircraft, even where others share callsigns (`OwnCallsigns` fails) or
  log on to a station they are with (`Relogon = TRUE`).  The condition is on
  what happened to those aircraft and is what is needed: with `Relogon` the
  instance of `server_one` breaks `ViewsCurrent`, and only by way of a station that
  holds both slots.  `ViewsAlwaysCurrent` is the case `A = Address`, where
  `~Relogon` gives the condition.

`HoppieBridgeProofs` (for any pilots, stations, mode, length of the MIN
sequence, size of the sets of seen messages, and any number of packets,
envelopes, repeats and failed requests): `TypeCorrect` and one theorem for each
invariant of the run `hoppie`.

* `AnswersAlwaysResolve` rests on `DataInv`: the map that references are
  translated with maps a MIN to itself or to nothing, a text is told under
  the MIN it came with, and a message in any queue refers to what it answers.
* `AlwaysRelayedOnce` rests on `SeenInv`: what was relayed for an envelope is in the
  set of seen ones, which is written first; a failed request in between can lose
  an envelope but not double it.
* `AcceptanceAlwaysBacked` is inductive as it stands, over `DataInv`: publications
  stay where they are, and the handler tells the pilot after both.
* `MinsAlwaysReusedLast` rests on `CountInv`: since a text was published with a
  MIN, its pair published, or lost to failures, at least as many texts as the
  counter has gone on from that MIN, round the end of the sequence
  (`Distance`).

`GuiAppProofs` (for any number of tabs, stations and failures): `TypeCorrect`,
`ConnectedTabsCanSend`, `OneTabIsShown`, `InboxesReadOnce`.  The invariant of the
bar: ids of tabs are distinct (`TabsDistinct`) and grow with the place
(`IdsInOrder`), the shown place is in the bar (`PlaceInBar`); without the first,
closing a tab by its place could leave its id open and its client gone.  The
invariant of the tasks: the task that connects belongs to a tab in setup
(`ConnectingIsSetup`), so connecting never starts a second listener by taking
the mark away, and a tab with a listener is marked (`ListenersMarked`).

`GuiTabProofs` (for any peers, bodies, menus, bounds, lengths of the MIN
sequence, and all three screens): `TypeCorrect` and one theorem for each
invariant of the two runs.

* `CompositionsAreClean`, `SelectionIsAFlight` are inductive over the type
  invariant.
* `DraftsStayOpen`: a draft with a reference is not empty, and only the A320
  screen has one (`DraftInv`); hence no key answers anything while it waits
  (`PressedRow`), and the listener only adds rows (`ListenAdds`).
* `RepliesKeepTheirTarget`: rows only grow and are marked (`RowsGrow`), and a
  card is about a row with its MIN and its aircraft (`CardsType`).
* `AcknowledgedOnce`: what was sent, what was received and what the listener is
  busy with are counted together.  A step is quiet (`SentQuietly`,
  `ListedQuietly`) or moves one message from one place to the other.  What users
  compose holds no acknowledgement and what the listener is busy with is none
  (`AckInv`); the first part is the hypothesis `NoAcksByHand` on the menus.
* `UntouchedAreQueued`: `RequestsAreQueued` groups rows by a function that follows
  references recursively.  That it exists is shown for the rows before
  each place, by the least place without one (`RootsExist`); then it can be
  unfolded (`RootUnfolds`), and a row that nothing refers to is alone in its
  dialogue: the first other row with its root would have it from an earlier one
  (`UntouchedRoot`).

`WebProofs` (for any stations, bodies, menus, bounds, lengths of the MIN
sequence, and any number of connections and failures): `TypeCorrect`,
`FarewellCorrect`, `HeardOnceCorrect`, `TransientCorrect`, `ClosedStaysClosed`,
`AnsweredOnceCorrect`, that is, every invariant and action property of the run
`web`.

* The farewell rests on `LinkInv`.  Who leaves was connected and has no timer
  left, which a promise of ONLINE that settles late could undo; so one ONLINE is
  awaited at a time, and only while connecting (`Once`).  The other half, that
  nobody who has no client is announced, is what makes the last ONLINE of a
  connection precede its farewell.
* Listening rests on `LinkInv` and `HeardInv`: without faults a client is
  connected or its ONLINE is awaited, so the next connection starts with no
  listener left over.
* The list rests on `RowsInv`.  A promise is about a place in the list and
  settles after any number of messages: rows stay and keep their direction
  (`RowsStay`), and a promise to send a draft is about a row of ours
  (`DraftInv`); without that, a draft that settles could reopen an uplink.
* One answer rests on `AnswersInv`, which relates three places: what was sent
  about an uplink, the promises that have not settled, and its status.  An answer
  is awaited for one uplink once, and only while that uplink is being answered or
  was closed by the station meanwhile (`AwaitInv`); what was answered is still
  awaited or shows on the uplink, and after another answer STANDBY is not awaited
  (`SentInv`), so a late STANDBY cannot reopen the keys.  While the connection is
  drained promises settle as failures and rows open again, but what is answered
  then is not delivered; hence the condition on `leaving`.
* What arrives and what is pressed leaves the connection alone
  (`TrafficIsQuiet`), so each invariant treats these steps as one.

The assumptions are on constants only: `None` is none of the values it is
absent among, sets have their types, the lease and the budget are naturals.
TLC evaluates them on every run.

Every invariant and action property of a passing run has a theorem.  Only
model-checked: the liveness properties `LapsedGoesOffline`,
`VanishedAreReleased`, `HeartbeatsRepairViews`, `ClosedFallSilent`,
`ConnectedAreServed`, `DisconnectEnds` (temporal reasoning with fairness and
`ENABLED` is out of the prover's reach); and the properties that the three
violation runs refute.

## 6. Plan

Done: the store, the registry, the loop, the bridge, the GUI client with its
screens, the web client, and the theorems above.  Next, in this order:

1. `HoppieBridge` composed with `StationRegistry`: registration of all bridged
   aircraft under one id, leases nobody renews; two stations and two pilots.
2. An abstract specification of a dialogue (a request is answered once and stays
   closed) that the screens and the web client implement, with its refinement
   proved.

## 7. Not modelled

* Of the TypeScript SDK, what the web client does not use: the builders of
  stations' messages and the exchange of the authorization code.
* The auth service and mock OIDC: signatures and HTTP, no state of the protocol.
* The CLI and the load test: drivers around the SDK.
* Texts: templates and arguments of the catalogue, rendering, and the matching
  of Hoppie packets to elements.
* `atc_view_old.rs`, which is not compiled in.
* Several tabs with screens at once: `GuiApp` has the tabs and `GuiTab` one tab;
  what A320 tabs share by way of the view is told in section 4.
