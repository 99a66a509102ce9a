------------------------------- MODULE WebClient --------------------------------
(***************************************************************************)
(* The connection of the web demonstrator (a320-mcdu-dcdu,                 *)
(* useOpenLink.ts) with the TypeScript SDK under it (openlink-sdk-ts): the *)
(* state behind the screens of one aircraft.  The screens are in           *)
(* WebScreens.                                                             *)
(*                                                                         *)
(* JavaScript runs one handler at a time, up to its await.  What waits is  *)
(* the flush of what was published: these promises settle in order, or all *)
(* fail with the connection.  In between, messages arrive and keys are     *)
(* pressed; a key acts on what the screen shows at that time.              *)
(*                                                                         *)
(* The stations, the server between and the NATS library are the           *)
(* environment.                                                            *)
(***************************************************************************)
EXTENDS ResponseCatalogue, SequencesExt

CONSTANTS
    Station,        \* callsigns of ground stations
    Uplinks4Me,     \* bodies that stations send
    MaxMin,         \* 63: MINs run from 1 to MaxMin
    MaxArrivals,    \* bound on the messages that arrive, session updates apart
    MaxWritten,     \* bound on what the pilot sends
    MaxDrafts,      \* bound on the drafts that are listed
    MaxConnects,    \* bound on the connections that are opened
    MaxFaults,      \* bound on connections that fail or break
    MaxEvents       \* bound on these arrivals, sends, connections and faults together

ASSUME StationAssumption == Station \subseteq Nat \ {0} /\ IsFiniteSet(Station)
ASSUME BoundsAssumption ==
    /\ MaxMin \in Nat \ {0} /\ MaxArrivals \in Nat /\ MaxWritten \in Nat
    /\ MaxDrafts \in Nat /\ MaxConnects \in Nat /\ MaxFaults \in Nat /\ MaxEvents \in Nat

VARIABLES
    status,     \* "disconnected", "connecting" or "connected"
    client,     \* clientRef: the number of the connection, or None
    subs,       \* the connections whose inbox is listened to
    closed,     \* the connection of the client is closed for good
    beating,    \* heartbeatRef: the heartbeat's timer runs
    leaving,    \* where disconnectFromOpenLink waits
    session,    \* active_connection.peer, or None
    rows,       \* dcduMessages
    mins,       \* minSequences: the next MIN to each destination
    pending,    \* the publishes whose flush is awaited, oldest first
    delivery,   \* the message that arrived, and the listeners that have it yet to handle
    presence,   \* history: the status published last
    sent,       \* history: the messages published since the list was cleared
    stationMins,\* the next MIN each station gives
    arrivals, written, connects, faults

None == 0       \* no MIN, no MRN, no station, no connection
MIN == 1..MaxMin
Destination == Station \cup {None}      \* None: "UNKNOWN"

link == <<status, client, subs, closed, beating, leaving, presence>>
dialogue == <<rows, mins, pending, sent, written>>
environment == <<stationMins, arrivals, connects, faults>>
clientVars == <<link, session, dialogue, delivery, environment>>

(* A DcduMessage.                                                          *)
Status == {"open", "responding", "responded", "draft", "sending", "sent"}
Message(out, from, min, mrn, state, intents, elements) ==
    [out |-> out, from |-> from, min |-> min, mrn |-> mrn, status |-> state,
     intents |-> intents, elements |-> elements, acknowledged |-> FALSE]

DcduMessage ==
    [out : BOOLEAN, from : Destination, min : 0..MaxMin, mrn : 0..MaxMin,
     status : Status, intents : SUBSET Intent, elements : Seq({"DM"} \X Nat),
     acknowledged : BOOLEAN]

(* What a promise goes on with: the row it is about and the MIN it used.   *)
Flight(kind, row, min) ==
    [kind |-> kind, row |-> row, min |-> min,
     lost |-> closed \/ leaving = "drain"]

Flights == [kind : {"online", "offline", "logon", "draft"} \cup Intent, row : Nat,
            min : 0..MaxMin, lost : BOOLEAN]

(* An application message that was published, and the row it came from.    *)
Published == [to : Destination, min : MIN, mrn : 0..MaxMin, row : Nat,
              what : {"ack", "draft"} \cup Intent]

(* An envelope that arrived.                                               *)
Envelope(kind, from) ==
    [kind |-> kind, from |-> from, min |-> None, mrn |-> None, elements |-> << >>,
     unit |-> from]

Envelopes ==
    [kind : {"app", "logonResponse", "connectionRequest", "session"},
     from : Destination, min : 0..MaxMin, mrn : 0..MaxMin,
     elements : Uplinks4Me \cup {<< >>}, unit : Destination]

Nothing == [msg |-> Envelope("none", None), to |-> {}]

ClientTypeOK ==
    /\ status \in {"disconnected", "connecting", "connected"}
    /\ client \in 0..MaxConnects
    /\ subs \subseteq 0..MaxConnects
    /\ closed \in BOOLEAN
    /\ beating \in BOOLEAN
    /\ leaving \in {"no", "offline", "drain"}
    /\ session \in Destination
    /\ rows \in Seq(DcduMessage)
    /\ mins \in [Destination -> MIN]
    /\ pending \in Seq(Flights)
    /\ delivery \in {Nothing} \cup [msg : Envelopes, to : SUBSET subs]
    /\ presence \in {"unknown", "online", "offline"}
    /\ sent \in Seq(Published)
    /\ stationMins \in [Station -> MIN]
    /\ arrivals \in 0..MaxArrivals /\ written \in 0..MaxWritten
    /\ connects \in 0..MaxConnects /\ faults \in 0..MaxFaults

ClientInit ==
    /\ status = "disconnected" /\ client = None /\ subs = {} /\ closed = FALSE
    /\ beating = FALSE /\ leaving = "no" /\ session = None /\ presence = "unknown"
    /\ rows = << >> /\ mins = [d \in Destination |-> 1] /\ pending = << >>
    /\ sent = << >> /\ delivery = Nothing
    /\ stationMins = [s \in Station |-> 1]
    /\ arrivals = 0 /\ written = 0 /\ connects = 0 /\ faults = 0

-----------------------------------------------------------------------------
(* Publishing. *)

(* Variant: the count goes on after the last.                              *)
UnwrappedMin(n) == n + 1

(* nextMinForSession: after the last comes 1.                              *)
NextMin(n) == IF n >= MaxMin THEN 1 ELSE n + 1

Record(to, mrn, row, what) ==
    [to |-> to, min |-> mins[to], mrn |-> mrn, row |-> row, what |-> what]

(* An application message takes the next MIN, whether or not the           *)
(* connection takes the message; the handler then awaits its flush.        *)
PublishAndAwait(flight, record) ==
    /\ pending' = Append(pending, flight)
    /\ mins' = [mins EXCEPT ![record.to] = NextMin(@)]
    /\ sent' = IF flight.lost THEN sent ELSE Append(sent, record)

Room == arrivals + written + connects + faults < MaxEvents
Write == Room /\ written < MaxWritten /\ written' = written + 1

MayDraft == Cardinality({i \in DOMAIN rows : rows[i].elements # << >>}) < MaxDrafts

SetStatus(i, state) == [rows EXCEPT ![i].status = state]

-----------------------------------------------------------------------------
(* Connecting and leaving. *)

(* The form is only shown to those who are not connected.                  *)
Connect ==
    /\ status = "disconnected" /\ Room /\ connects < MaxConnects
    /\ connects' = connects + 1
    /\ status' = "connecting"
    /\ UNCHANGED <<client, subs, closed, beating, leaving, presence, session, dialogue,
                   delivery, stationMins, arrivals, faults>>

Awaits(kind) == \E i \in DOMAIN pending : pending[i].kind = kind

(* Authenticated and connected: listen, then say ONLINE.                   *)
Connected ==
    /\ status = "connecting" /\ ~Awaits("online")
    /\ client' = connects
    /\ closed' = FALSE
    /\ subs' = subs \cup {connects}
    /\ presence' = "online"
    /\ pending' = Append(pending, [Flight("online", 0, None) EXCEPT !.lost = FALSE])
    /\ UNCHANGED <<status, beating, leaving, session, rows, mins, sent, written,
                   delivery, environment>>

(* The authentication or the connection fails.                             *)
ConnectFails ==
    /\ status = "connecting" /\ ~Awaits("online")
    /\ Room /\ faults < MaxFaults /\ faults' = faults + 1
    /\ status' = "disconnected"
    /\ UNCHANGED <<client, subs, closed, beating, leaving, presence, session, dialogue,
                   delivery, stationMins, arrivals, connects>>

(* The timer says ONLINE again, as long as it runs.                        *)
Heartbeat ==
    /\ beating /\ client # None
    /\ presence' = IF closed \/ leaving = "drain" THEN presence ELSE "online"
    /\ UNCHANGED <<status, client, subs, closed, beating, leaving, session, dialogue,
                   delivery, environment>>

(* Variant: the timer is only stopped when all is said.                    *)
StillBeating == beating

(* The timer is stopped before OFFLINE is said.                            *)
BeatingAfter == FALSE

(* The key works again while a press is being handled; presses while       *)
(* OFFLINE is awaited only say it again and are left out.                  *)
Disconnect ==
    /\ status = "connected" /\ ~Awaits("offline")
    /\ beating' = BeatingAfter
    /\ leaving' = IF leaving = "no" THEN "offline" ELSE leaving
    /\ presence' = IF closed \/ leaving = "drain" THEN presence ELSE "offline"
    /\ pending' = Append(pending, Flight("offline", 0, None))
    /\ UNCHANGED <<status, client, subs, closed, session, rows, mins, sent, written,
                   delivery, environment>>

(* Variant: the connection is drained with its subscription.               *)
KeepListening(c) == UNCHANGED <<subs, delivery>>

Unlisten(c) ==
    LET to == delivery.to \ {c}
    IN  /\ subs' = subs \ {c}
        /\ delivery' = IF to = {} THEN Nothing ELSE [delivery EXCEPT !.to = to]

(* Variant: the inbox is given up, and nothing follows.                    *)
GiveUp == leaving' = "no" /\ Unlisten(client)

(* OFFLINE was said or could not be: the inbox is given up and the         *)
(* connection drained.  One that is closed, or drained already, refuses.   *)
Leave ==
    /\ leaving' = IF closed THEN "no" ELSE "drain"
    /\ Unlisten(client)

(* The connection is drained: everything is forgotten.  The numbering is   *)
(* the SDK's and goes on.                                                  *)
Drained ==
    /\ leaving = "drain"
    /\ status' = "disconnected" /\ client' = None /\ leaving' = "no"
    /\ session' = None
    /\ rows' = << >> /\ pending' = << >> /\ sent' = << >>
    /\ UNCHANGED <<subs, closed, beating, presence, mins, written, delivery, environment>>

-----------------------------------------------------------------------------
(* Promises that settle.  A status is set on the row whatever became of it *)
(* meanwhile; a list that was cleared has no such row.                     *)

(* Only STANDBY leaves the dialogue open.                                  *)
AnswerSent(f) == SetStatus(f.row, IF f.kind = "Standby" THEN "sent" ELSE "responded")
(* Variant: a failure is only logged.                                      *)
StillResponding(f) == rows

AnswerFailed(f) == SetStatus(f.row, "open")
DraftSent(f) == [rows EXCEPT ![f.row].status = "sent", ![f.row].min = f.min]
DraftFailed(f) == SetStatus(f.row, "draft")

(* The pilot's logon is listed once it was sent.                           *)
LogonSent == Append(rows, Message(TRUE, None, None, None, "sent", {}, << >>))

Settle(f, ok) ==
    /\ rows' = CASE f.kind \in Intent -> IF ok THEN AnswerSent(f) ELSE AnswerFailed(f)
                 [] f.kind = "draft"  -> IF ok THEN DraftSent(f) ELSE DraftFailed(f)
                 [] f.kind = "logon" /\ ok -> LogonSent
                 [] OTHER -> rows
    /\ IF f.kind = "online"
       THEN /\ status' = IF ok THEN "connected" ELSE "disconnected"
            /\ beating' = ok
       ELSE UNCHANGED <<status, beating>>
    /\ IF f.kind = "offline" THEN Leave ELSE UNCHANGED <<leaving, subs, delivery>>
    /\ UNCHANGED <<client, closed, presence, session, mins, sent, written, environment>>

(* The server's answer to the flush: the oldest first.                     *)
Flushed ==
    \E i \in DOMAIN pending :
        /\ ~pending[i].lost /\ \A j \in 1..(i - 1) : pending[j].lost
        /\ pending' = RemoveAt(pending, i)
        /\ Settle(pending[i], TRUE)

FlushFailed ==
    \E i \in DOMAIN pending :
        /\ pending[i].lost /\ \A j \in 1..(i - 1) : ~pending[j].lost
        /\ pending' = RemoveAt(pending, i)
        /\ Settle(pending[i], FALSE)

(* The connection of the client breaks.  What awaits a flush fails,        *)
(* although it may have been delivered.  The library connects again, or    *)
(* gives up and closes the connection.  A break while it drains, which     *)
(* ends the drain, is left out.                                            *)
Break(forGood) ==
    /\ client # None /\ ~closed /\ leaving # "drain"
    /\ Room /\ faults < MaxFaults /\ faults' = faults + 1
    /\ pending' = [i \in DOMAIN pending |-> [pending[i] EXCEPT !.lost = TRUE]]
    /\ closed' = forGood
    /\ IF forGood THEN Unlisten(client) ELSE UNCHANGED <<subs, delivery>>
    /\ UNCHANGED <<status, client, beating, leaving, presence, session, rows, mins, sent,
                   written, stationMins, arrivals, connects>>

-----------------------------------------------------------------------------
(* handleIncomingMessage. *)

(* A logical acknowledgement is not displayed: it marks what it refers to. *)
Acknowledge(m) ==
    rows' = [i \in DOMAIN rows |->
                IF rows[i].out /\ m.mrn # None /\ rows[i].min = m.mrn
                THEN [rows[i] EXCEPT !.acknowledged = TRUE] ELSE rows[i]]

(* What is answered to a message before it is displayed: the logical       *)
(* acknowledgement, and to CONTACT a logon, which starts the numbering to  *)
(* that unit over.  Nobody waits for these to be flushed.                  *)
Reply(m) ==
    LET acks == client # None /\ ShouldAck(m.elements, m.min)
        logsOn == client # None /\ UM(117) \in Ids(m.elements)
        acked == IF acks THEN [mins EXCEPT ![m.from] = NextMin(@)] ELSE mins
    IN  /\ mins' = IF logsOn THEN [acked EXCEPT ![m.unit] = 1] ELSE acked
        /\ sent' = IF acks /\ ~closed /\ leaving # "drain"
                   THEN Append(sent, Record(m.from, m.min, 0, "ack")) ELSE sent

ResponseIntents(elements) == IF elements = << >> THEN {} ELSE ShortResponses(elements)

(* The uplink that started the dialogue this message goes on with: what    *)
(* our first message with that number referred to.                         *)
RootOf(m) ==
    LET answered == {i \in DOMAIN rows : rows[i].out /\ m.mrn # None /\ rows[i].min = m.mrn}
    IN  IF answered = {} THEN None ELSE rows[Min(answered)].mrn

(* Variant: the uplink is left as after STANDBY.                           *)
MarkUplink(min) ==
    [i \in DOMAIN rows |-> IF ~rows[i].out /\ rows[i].min = min
                           THEN [rows[i] EXCEPT !.status = "sent"] ELSE rows[i]]

CloseUplink(min) ==
    [i \in DOMAIN rows |-> IF ~rows[i].out /\ rows[i].min = min
                           THEN [rows[i] EXCEPT !.status = "responded"] ELSE rows[i]]

(* An answer to a message of ours that was itself an answer closes the     *)
(* dialogue and needs no response.                                         *)
Display(m) ==
    LET root == RootOf(m)
    IN  rows' = IF root = None
                THEN Append(rows, Message(FALSE, m.from, m.min, m.mrn, "open",
                                          ResponseIntents(m.elements), << >>))
                ELSE Append(CloseUplink(root), Message(FALSE, m.from, m.min, root,
                                                       "responded", {}, << >>))

HandleIncoming(m) ==
    /\ CASE m.kind = "app" /\ ContainsAck(m.elements) ->
                Acknowledge(m) /\ UNCHANGED <<session, mins, sent>>
         [] m.kind = "app" /\ ~ContainsAck(m.elements) ->
                Reply(m) /\ Display(m) /\ UNCHANGED session
         [] m.kind = "logonResponse" ->
                /\ rows' = Append(rows, Message(FALSE, m.from, None, None,
                                                "responded", {}, << >>))
                /\ UNCHANGED <<session, mins, sent>>
         [] m.kind = "connectionRequest" -> UNCHANGED <<session, rows, mins, sent>>
         [] m.kind = "session" ->
                session' = m.from /\ UNCHANGED <<rows, mins, sent>>
    /\ UNCHANGED <<link, pending, written, connects, faults>>

-----------------------------------------------------------------------------
(* What may arrive: one of the listeners has it first, others later. *)

MinsSentTo(s) ==
    {sent[i].min : i \in {j \in DOMAIN sent : sent[j].to = s /\ sent[j].what # "ack"}}

Application(s, mrn, elements, unit) ==
    [kind |-> "app", from |-> s, min |-> stationMins[s], mrn |-> mrn,
     elements |-> elements, unit |-> unit]

(* Stations answer what they were sent; an acknowledgement always does.    *)
Sensible(s, mrn, elements, unit) ==
    /\ ContainsAck(elements) => mrn # None
    /\ UM(117) \notin Ids(elements) => unit = s

Deliver(m) ==
    /\ delivery = Nothing
    /\ \E c \in subs : delivery' = IF subs = {c} THEN Nothing
                                  ELSE [msg |-> m, to |-> subs \ {c}]
    /\ HandleIncoming(m)

DeliverAgain(c) ==
    /\ c \in delivery.to
    /\ delivery' = IF delivery.to = {c} THEN Nothing
                   ELSE [delivery EXCEPT !.to = @ \ {c}]
    /\ HandleIncoming(delivery.msg)
    /\ UNCHANGED <<stationMins, arrivals>>

Arrives == Room /\ arrivals < MaxArrivals /\ arrivals' = arrivals + 1

ArriveApplication ==
    \E s, unit \in Station, elements \in Uplinks4Me :
        \E mrn \in MinsSentTo(s) \cup {None} :
            /\ Sensible(s, mrn, elements, unit)
            /\ Arrives /\ Deliver(Application(s, mrn, elements, unit))
            /\ stationMins' = [stationMins EXCEPT ![s] = NextMin(@)]

(* A station that accepts a logon or requests a connection numbers its     *)
(* messages from 1 again.                                                  *)
ArriveMeta ==
    \E s \in Station, kind \in {"logonResponse", "connectionRequest"} :
        /\ Arrives /\ Deliver(Envelope(kind, s))
        /\ stationMins' = [stationMins EXCEPT ![s] = 1]

ArriveSession ==
    \E s \in Destination :
        /\ s # session
        /\ Deliver(Envelope("session", s))
        /\ UNCHANGED <<stationMins, arrivals>>

-----------------------------------------------------------------------------
(* What the screens call. *)

(* A short answer: to the station of the uplink, about its MIN.            *)
SendResponse(i, intent) ==
    /\ client # None /\ Write
    /\ rows' = SetStatus(i, "responding")
    /\ PublishAndAwait(Flight(intent, i, None), Record(rows[i].from, rows[i].min, i, intent))
    /\ UNCHANGED <<link, session, delivery, environment>>

(* A draft: to the station that is connected now.                          *)
SendDraft(i) ==
    /\ client # None /\ Write
    /\ rows' = SetStatus(i, "sending")
    /\ PublishAndAwait(Flight("draft", i, mins[session]),
                       Record(session, rows[i].mrn, i, "draft"))
    /\ UNCHANGED <<link, session, delivery, environment>>

(* A logon starts the numbering over.                                      *)
SendLogonRequest(s) ==
    /\ client # None /\ Write
    /\ mins' = [mins EXCEPT ![s] = 1]
    /\ pending' = Append(pending, Flight("logon", 0, None))
    /\ UNCHANGED <<link, session, rows, sent, delivery, environment>>

(* A draft is linked to the newest uplink that is open.                    *)
TransferToDcdu(elements) ==
    LET open == {i \in DOMAIN rows : /\ ~rows[i].out /\ rows[i].min # None
                                     /\ rows[i].status \in {"open", "sent"}}
        mrn == IF open = {} THEN None ELSE rows[Max(open)].min
    IN  /\ MayDraft
        /\ rows' = Append(rows, Message(TRUE, None, None, mrn, "draft", {}, elements))
        /\ UNCHANGED <<link, session, mins, pending, sent, written, delivery,
                       environment>>

(* What happens without the pilot.                                         *)
ClientStep ==
    \/ Connected \/ ConnectFails \/ Heartbeat \/ Flushed \/ FlushFailed
    \/ \E forGood \in BOOLEAN : Break(forGood)
    \/ ArriveApplication \/ ArriveMeta \/ ArriveSession
    \/ \E c \in delivery.to : DeliverAgain(c)
=============================================================================
