------------------------------ MODULE HoppieBridge ------------------------------
(***************************************************************************)
(* The bridge between the Hoppie network and OpenLink (openlink-hoppie):   *)
(* pilots on Hoppie, controllers on OpenLink.  One task polls Hoppie for   *)
(* every ground callsign it stands for and relays what it finds, or takes  *)
(* an envelope from its OpenLink inbox and relays that; it finishes one    *)
(* before it starts the next, so a handler is one step, which a failed     *)
(* publish or HTTP request makes stop short.                               *)
(*                                                                         *)
(* Pilots, controllers and the server in between are the environment.      *)
(* Callsigns are upper case on both sides.  Texts are told apart only by   *)
(* what the bridge makes of them.                                          *)
(***************************************************************************)
EXTENDS Integers, Sequences, FiniteSets

CONSTANTS
    Aircraft,       \* callsigns of Hoppie pilots
    Station,        \* bridge_callsigns, ground stations
    Mode,           \* "Ground", "Aircraft" or "Full"
    MaxMin,         \* 63: MINs run from 1 to MaxMin
    SeenLimit,      \* 10000: how many messages a set of seen ones holds
    MaxPackets,     \* bound on the packets sent on Hoppie to stations
    MaxEnvelopes,   \* bound on the envelopes for the inbox
    MaxRepeats,     \* bound on envelopes delivered again
    MaxFaults       \* bound on failed requests

ASSUME ModeAssumption == Mode \in {"Ground", "Aircraft", "Full"}
ASSUME NumbersAssumption ==
    /\ MaxMin \in Nat \ {0}
    /\ SeenLimit \in Nat
    /\ MaxPackets \in Nat
    /\ MaxEnvelopes \in Nat
    /\ MaxRepeats \in Nat
    /\ MaxFaults \in Nat

VARIABLES
    hoppie,     \* station -> packets waiting on Hoppie to be polled
    polling,    \* stations the running tick has still to poll
    batch,      \* what the last poll returned and is not yet relayed
    inbox,      \* envelopes waiting in the inbox of the bridge
    counters,   \* SessionTracker.min_counters, 0 for an absent one
    minMap,     \* min_map_hoppie_to_openlink, 0 for an absent entry
    seen,       \* seen_hoppie_hashes and seen_openlink_ids
    published,  \* history: what was published to the OpenLink server
    told,       \* history: what was sent to pilots on Hoppie
    written,    \* how many packets were sent on Hoppie to stations
    arrived,    \* the envelopes that were sent to the bridge
    repeats,    \* how many envelopes were delivered again
    faults,     \* how many requests failed
    emptied     \* history: the set of seen envelopes was emptied

tracker == <<counters, minMap, seen, emptied>>
outside == <<hoppie, inbox, written, arrived, repeats>>
vars == <<hoppie, polling, batch, inbox, counters, minMap, seen, published,
          told, written, arrived, repeats, faults, emptied>>

Pair == Aircraft \X Station     \* SessionKey
MIN == 1..MaxMin
Mrn == 0..MaxMin                \* 0: no reference

(* A packet to a station.  What it says: a request to log on, a message of *)
(* the dialogue, something the parser rejects, or no CPDLC at all.  answers *)
(* is kept for the properties: the MIN that the controller gave to the     *)
(* message that the pilot answers, or 0.                                   *)
Packet == [from : Aircraft \cup Station, to : Station, min : MIN, mrn : Mrn,
           says : {"logon", "text", "garbled", "telex"}, answers : Mrn]

(* What the server sends to the bridge for a registered aircraft: answers  *)
(* to a logon, messages, and what the bridge ignores (its own messages,    *)
(* other meta messages, status and session updates).                       *)
Envelope == [id : 1..MaxEnvelopes, says : {"accepted", "rejected", "text", "other"},
             pair : Pair, min : Mrn, mrn : Mrn]

Publication == [kind : {"status", "logon", "text", "request", "response"},
                pair : Pair, min : Mrn, mrn : Mrn, answers : Mrn, for : 0..MaxEnvelopes]

(* A packet to a pilot; origin is the MIN that the controller gave.        *)
Telling == [says : {"accepted", "rejected", "text"}, pair : Pair, min : MIN,
            mrn : Mrn, origin : Mrn, for : 1..MaxEnvelopes]

TypeOK ==
    /\ hoppie \in [Station -> Seq(Packet)]
    /\ polling \subseteq Station
    /\ batch \in Seq(Packet)
    /\ inbox \in Seq(Envelope)
    /\ counters \in [Pair -> 0..MaxMin]
    /\ minMap \in [Pair \X MIN -> 0..MaxMin]
    /\ Cardinality(seen.hoppie) <= SeenLimit
    /\ Cardinality(seen.openlink) <= SeenLimit
    /\ published \in Seq(Publication)
    /\ told \in Seq(Telling)
    /\ written \in 0..MaxPackets
    /\ arrived \subseteq Envelope
    /\ repeats \in 0..MaxRepeats
    /\ faults \in 0..MaxFaults
    /\ emptied \in BOOLEAN

Init ==
    /\ hoppie = [s \in Station |-> << >>]
    /\ polling = {}
    /\ batch = << >>
    /\ inbox = << >>
    /\ counters = [k \in Pair |-> 0]
    /\ minMap = [e \in Pair \X MIN |-> 0]
    /\ seen = [hoppie |-> {}, openlink |-> {}]
    /\ published = << >>
    /\ told = << >>
    /\ written = 0
    /\ arrived = {}
    /\ repeats = 0
    /\ faults = 0
    /\ emptied = FALSE

-----------------------------------------------------------------------------
(* Pilots, controllers and the server. *)

(* A pilot, or another station, sends a packet.  Pilots number their       *)
(* messages as they like, start over, and answer what they were told.  The *)
(* number of what the bridge drops unread is all one.                      *)
SendPacket(p) ==
    /\ written < MaxPackets
    /\ p.from \in Station => p.says = "text"
    /\ p.from \in Station \/ p.says \in {"garbled", "telex"} => p.min = 1
    /\ \/ p.mrn = 0 /\ p.answers = 0
       \/ /\ p.says = "text"
          /\ \E i \in DOMAIN told :
               /\ told[i].says = "text"
               /\ told[i].pair = <<p.from, p.to>>
               /\ p.mrn = told[i].min /\ p.answers = told[i].origin
    /\ written' = written + 1
    /\ hoppie' = [hoppie EXCEPT ![p.to] = Append(@, p)]
    /\ UNCHANGED <<polling, batch, inbox, published, told, arrived, repeats, faults,
                   tracker>>

Registered(aircraft) ==
    \E i \in DOMAIN published :
        published[i].kind = "status" /\ published[i].pair[1] = aircraft

(* A controller answers a logon or writes, or the server has something to  *)
(* tell: the server sends it to where the aircraft is registered.          *)
SendEnvelope(e) ==
    /\ \A d \in arrived : d.id < e.id
    /\ e.id = Cardinality(arrived) + 1
    /\ Registered(e.pair[1])
    /\ e.says \in {"accepted", "rejected"} =>
         \E i \in DOMAIN published :
             published[i].kind = "logon" /\ published[i].pair = e.pair
    /\ IF e.says = "text" THEN e.min \in MIN ELSE e.min = 0
    /\ e.mrn # 0 =>
         e.says = "text" /\ \E i \in DOMAIN published :
             published[i].kind = "text" /\ published[i].pair = e.pair
               /\ published[i].min = e.mrn
    /\ inbox' = Append(inbox, e)
    /\ arrived' = arrived \cup {e}
    /\ UNCHANGED <<hoppie, polling, batch, published, told, written, repeats,
                   faults, tracker>>

(* An envelope is delivered again.                                         *)
Redeliver(e) ==
    /\ repeats < MaxRepeats
    /\ repeats' = repeats + 1
    /\ inbox' = Append(inbox, e)
    /\ UNCHANGED <<hoppie, polling, batch, published, told, written, arrived,
                   faults, tracker>>

-----------------------------------------------------------------------------
(* SessionTracker.  The map of the other direction is written and never    *)
(* read: what controllers write keeps its MIN and its reference.           *)

(* Variant: without wrapping around.                                       *)
UnwrappedMin(k) == counters[k] + 1

(* Variant: one MIN short.                                                 *)
ShortMin(k) == (counters[k] % (MaxMin - 1)) + 1

NextMin(k) == (counters[k] % MaxMin) + 1

(* mark_hoppie_seen, mark_openlink_seen: the set, emptied when it is full. *)
Marked(set, x) == IF Cardinality(set \cup {x}) > SeenLimit THEN {} ELSE set \cup {x}

(* hoppie_message_hash: who sent it and what, whomever it is for.          *)
Hash(p) == <<p.from, p.min, p.mrn, p.says>>

(* translate_hoppie_mrn, and the reference as it is if it is not known.    *)
Translated(k, mrn) ==
    IF mrn # 0 /\ minMap[<<k, mrn>>] # 0 THEN minMap[<<k, mrn>>] ELSE mrn

(* Variant: under the MIN that the pilot gave.                             *)
RecordedAsSent(k, p, min) == [minMap EXCEPT ![<<k, p.min>>] = min]

(* record_hoppie_min, with the MIN that the bridge assigned on both sides. *)
Recorded(k, p, min) == [minMap EXCEPT ![<<k, min>>] = min]

-----------------------------------------------------------------------------
(* Requests to the server and to Hoppie, in order; the first that fails    *)
(* ends the handler.                                                       *)

Fails == faults < MaxFaults /\ faults' = faults + 1
Succeeds == UNCHANGED faults

Publish(requests) ==
    \/ Succeeds /\ published' = published \o requests
    \/ Fails /\ \E n \in 0..(Len(requests) - 1) :
                    published' = published \o SubSeq(requests, 1, n)

Message(kind, k, e) ==
    [kind |-> kind, pair |-> k, min |-> 0, mrn |-> 0, answers |-> 0, for |-> e]

-----------------------------------------------------------------------------
(* Hoppie -> OpenLink *)

Free == polling = {} /\ batch = << >>

Polls == Mode \in {"Ground", "Full"}
Listens == Mode \in {"Aircraft", "Full"}

Tick ==
    /\ Free
    /\ Polls
    /\ polling' = Station
    /\ UNCHANGED <<batch, published, told, faults, tracker, outside>>

(* Hoppie hands out a message once: if the answer to the poll is lost, so  *)
(* are the messages.                                                       *)
Poll(s) ==
    /\ batch = << >>
    /\ s \in polling
    /\ polling' = polling \ {s}
    /\ \/ Succeeds /\ batch' = hoppie[s] /\ hoppie' = [hoppie EXCEPT ![s] = << >>]
       \/ Fails /\ UNCHANGED <<batch, hoppie>>
       \/ Fails /\ hoppie[s] # << >> /\ hoppie' = [hoppie EXCEPT ![s] = << >>]
                /\ UNCHANGED batch
    /\ UNCHANGED <<inbox, written, arrived, repeats, published, told, tracker>>

IsDuplicate(p) == Hash(p) \in seen.hoppie

(* The first steps of handle_hoppie_message: p is taken up, and remembered *)
(* if it is CPDLC and new.                                                 *)
TakeUp(p) ==
    /\ batch # << >>
    /\ p = Head(batch)
    /\ batch' = Tail(batch)
    /\ UNCHANGED <<polling, told, outside>>

Remember(p) ==
    /\ p.says # "telex"
    /\ ~IsDuplicate(p)
    /\ seen' = [seen EXCEPT !.hoppie = Marked(@, Hash(p))]
    /\ UNCHANGED emptied

SkipPacket(p) ==
    /\ TakeUp(p)
    /\ \/ /\ p.says = "telex" \/ IsDuplicate(p)
          /\ UNCHANGED tracker
       \/ /\ Remember(p)
          /\ p.from \in Station \/ p.says = "garbled"
          /\ UNCHANGED <<counters, minMap>>
    /\ UNCHANGED <<published, faults>>

(* The aircraft is registered under the address of the bridge, and the     *)
(* logon is relayed.                                                       *)
RelayLogon(p) ==
    LET k == <<p.from, p.to>> IN
    /\ TakeUp(p)
    /\ Remember(p)
    /\ p.from \notin Station
    /\ p.says = "logon"
    /\ Publish(<<Message("status", k, 0), Message("logon", k, 0)>>)
    /\ UNCHANGED <<counters, minMap>>

RelayPacket(p) ==
    LET k == <<p.from, p.to>>
        m == [kind |-> "text", pair |-> k, min |-> NextMin(k),
              mrn |-> Translated(k, p.mrn), answers |-> p.answers, for |-> 0]
    IN
    /\ TakeUp(p)
    /\ Remember(p)
    /\ p.from \notin Station
    /\ p.says = "text"
    /\ counters' = [counters EXCEPT ![k] = NextMin(k)]
    /\ minMap' = Recorded(k, p, NextMin(k))
    /\ Publish(<<m>>)

-----------------------------------------------------------------------------
(* OpenLink -> Hoppie *)

Receive(e) ==
    /\ Free
    /\ inbox # << >>
    /\ e = Head(inbox)
    /\ inbox' = Tail(inbox)
    /\ UNCHANGED <<hoppie, polling, batch, written, arrived, repeats, counters,
                   minMap>>

(* Variant: only texts are remembered.                                     *)
RememberText(e) ==
    /\ Listens
    /\ e.id \notin seen.openlink
    /\ seen' = IF e.says = "text"
               THEN [seen EXCEPT !.openlink = Marked(@, e.id)] ELSE seen
    /\ emptied' = (emptied \/ (e.says = "text" /\ seen'.openlink = {}))

RememberId(e) ==
    /\ Listens
    /\ e.id \notin seen.openlink
    /\ seen' = [seen EXCEPT !.openlink = Marked(@, e.id)]
    /\ emptied' = (emptied \/ seen'.openlink = {})

SkipEnvelope(e) ==
    /\ Receive(e)
    /\ \/ /\ ~Listens \/ e.id \in seen.openlink
          /\ UNCHANGED <<seen, emptied>>
       \/ RememberId(e) /\ e.says = "other"
    /\ UNCHANGED <<published, told, faults>>

(* The packet that tells the pilot; a logon answer has the MIN 1.          *)
PacketFor(e) ==
    [says |-> e.says, pair |-> e.pair, min |-> IF e.says = "text" THEN e.min ELSE 1,
     mrn |-> e.mrn, origin |-> e.min, for |-> e.id]

Tell(e) ==
    \/ Succeeds /\ told' = Append(told, PacketFor(e))
    \/ Fails /\ UNCHANGED told

(* A message, or a refused logon.                                          *)
RelayEnvelope(e) ==
    /\ Receive(e)
    /\ RememberId(e)
    /\ e.says \in {"text", "rejected"}
    /\ Tell(e)
    /\ UNCHANGED published

(* Variant: the pilot is told first.                                       *)
TellAcceptanceFirst(e) ==
    /\ Receive(e)
    /\ RememberId(e)
    /\ e.says = "accepted"
    /\ \/ /\ Tell(e)
          /\ published' = published \o <<Message("request", e.pair, e.id),
                                        Message("response", e.pair, e.id)>>
       \/ Fails /\ told' = Append(told, PacketFor(e)) /\ UNCHANGED published

(* An accepted logon: the bridge requests the connection in the station's  *)
(* name, accepts it in the aircraft's, and tells the pilot.                *)
RelayAcceptance(e) ==
    LET requests == <<Message("request", e.pair, e.id), Message("response", e.pair, e.id)>>
    IN
    /\ Receive(e)
    /\ RememberId(e)
    /\ e.says = "accepted"
    /\ \/ published' = published \o requests /\ Tell(e)
       \/ Fails /\ UNCHANGED told
            /\ \E n \in 0..1 : published' = published \o SubSeq(requests, 1, n)

-----------------------------------------------------------------------------

(* The handlers of one packet, of one envelope.                            *)
HandlePacket ==
    batch # << >> /\ LET p == Head(batch) IN
        SkipPacket(p) \/ RelayLogon(p) \/ RelayPacket(p)

HandleEnvelope ==
    inbox # << >> /\ LET e == Head(inbox) IN
        SkipEnvelope(e) \/ RelayEnvelope(e) \/ RelayAcceptance(e)

Next ==
    \/ \E p \in Packet : SendPacket(p)
    \/ \E e \in Envelope : SendEnvelope(e)
    \/ \E e \in arrived : Redeliver(e)
    \/ Tick
    \/ \E s \in Station : Poll(s)
    \/ HandlePacket
    \/ HandleEnvelope

Spec == Init /\ [][Next]_vars
=============================================================================
