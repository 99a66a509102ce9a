--------------------------- MODULE HoppieBridgeProofs ---------------------------
(***************************************************************************)
(* Proofs about the Hoppie bridge, for every set of pilots and stations,   *)
(* every mode, number of MINs, size of the sets of seen messages and       *)
(* number of packets, envelopes, repeats and failed requests.              *)
(*                                                                         *)
(* DataInv refines the types by what the bridge relies on: a message in a  *)
(* queue answers the MIN it refers to, the map of MINs maps each to        *)
(* itself.  SeenInv ties what was relayed to the set of seen envelopes,    *)
(* CountInv ties the counters to the texts published since.                *)
(***************************************************************************)
EXTENDS HoppieBridgeProperties, FiniteSetTheorems, SequenceTheorems, TLAPS

(* A packet that answers refers to what it answers.                        *)
SoundPacket == {p \in Packet : p.answers # 0 => p.mrn = p.answers}

(* A text has a MIN.                                                       *)
SoundEnvelope == {e \in Envelope : e.says = "text" => e.min \in MIN}

SoundPublication ==
    {m \in Publication : m.kind = "text" =>
        m.min \in MIN /\ (m.answers # 0 => m.mrn = m.answers)}

(* A text reaches the pilot under the MIN that the controller gave it.     *)
SoundTelling == {t \in Telling : t.says = "text" => t.min = t.origin}

HashOf == (Aircraft \cup Station) \X MIN \X Mrn \X {"logon", "text", "garbled", "telex"}

SeenSets == [hoppie : SUBSET HashOf, openlink : SUBSET (1..MaxEnvelopes)]

QueuesInv ==
    /\ hoppie \in [Station -> Seq(SoundPacket)]
    /\ polling \subseteq Station
    /\ batch \in Seq(SoundPacket)
    /\ inbox \in Seq(SoundEnvelope)
    /\ arrived \subseteq SoundEnvelope
    /\ written \in 0..MaxPackets
    /\ repeats \in 0..MaxRepeats

TrackerInv ==
    /\ counters \in [Pair -> 0..MaxMin]
    /\ minMap \in [Pair \X MIN -> 0..MaxMin]
    /\ \A k \in Pair, n \in MIN : minMap[<<k, n>>] \in {0, n}
    /\ seen \in SeenSets
    /\ IsFiniteSet(seen.hoppie) /\ Cardinality(seen.hoppie) <= SeenLimit
    /\ IsFiniteSet(seen.openlink) /\ Cardinality(seen.openlink) <= SeenLimit
    /\ emptied \in BOOLEAN

HistoryInv ==
    /\ published \in Seq(SoundPublication)
    /\ told \in Seq(SoundTelling)
    /\ faults \in 0..MaxFaults

DataInv == QueuesInv /\ TrackerInv /\ HistoryInv

-----------------------------------------------------------------------------
(* The texts of a pair published after place i.                            *)
Since(i) ==
    {n \in Places("text") : i < n /\ published[n].pair = published[i].pair}

(* How many times a counter at min is advanced until it is at count.       *)
Distance(min, count) == IF count >= min THEN count - min ELSE count - min + MaxMin

(* A counter has not gone further than texts were published since, or lost *)
(* on the way.                                                             *)
CountInv ==
    \A i \in Places("text") :
        Cardinality(Since(i)) + faults
            >= Distance(published[i].min, counters[published[i].pair])

(* What was relayed for an envelope is remembered.                         *)
SeenInv ==
    ~emptied =>
        /\ \A i \in Places("request") : published[i].for \in seen.openlink
        /\ \A t \in DOMAIN told : told[t].for \in seen.openlink

-----------------------------------------------------------------------------
(* The operators. *)

(* The first n of the requests were appended to what was published.        *)
Added(requests, n) ==
    /\ Len(published') = Len(published) + n
    /\ \A i \in 1..Len(published) : published'[i] = published[i]
    /\ \A i \in 1..n : published'[Len(published) + i] = requests[i]

LEMMA AddedBySubSeq ==
    ASSUME NEW T, published \in Seq(T), NEW requests \in Seq(T),
           NEW n \in 0..Len(requests),
           published' = published \o SubSeq(requests, 1, n)
    PROVE  published' \in Seq(T) /\ Added(requests, n)
<1> DEFINE added == SubSeq(requests, 1, n)
<1>1. /\ added \in Seq(T) /\ Len(added) = n
      /\ \A i \in 1..n : added[i] = requests[i]
  BY SubSeqProperties
<1>2. published' = published \o added
  OBVIOUS
<1> HIDE DEF added
<1>3. published' \in Seq(T) /\ Len(published') = Len(published) + n
  BY <1>1, <1>2, ConcatProperties
<1>4. \A i \in 1..Len(published) : published'[i] = published[i]
  BY <1>1, <1>2, ConcatProperties
<1>5. ASSUME NEW i \in 1..n
      PROVE  published'[Len(published) + i] = requests[i]
  <2>1. Len(published) \in Nat /\ n \in Nat
    BY LenProperties
  <2>2. Len(published) + i \in 1..(Len(published) + Len(added))
    BY <1>1, <2>1
  <2>3. ~(Len(published) + i <= Len(published))
        /\ (Len(published) + i) - Len(published) = i
    BY <2>1
  <2> QED BY <1>1, <1>2, <2>2, <2>3, ConcatProperties
<1> QED BY <1>3, <1>4, <1>5 DEF Added

LEMMA AddedByConcat ==
    ASSUME NEW T, published \in Seq(T), NEW requests \in Seq(T),
           published' = published \o requests
    PROVE  published' \in Seq(T) /\ Added(requests, Len(requests))
<1>1. requests = SubSeq(requests, 1, Len(requests))
  BY SubSeqFull
<1>2. Len(requests) \in 0..Len(requests)
  BY LenProperties
<1>3. published' = published \o SubSeq(requests, 1, Len(requests))
  BY <1>1
<1> QED BY <1>2, <1>3, AddedBySubSeq

(* A handler publishes what it has to, or a request failed.                *)
LEMMA PublishAdds ==
    ASSUME NEW T, published \in Seq(T), NEW requests \in Seq(T),
           requests # << >>, faults \in 0..MaxFaults, Publish(requests)
    PROVE  /\ published' \in Seq(T)
           /\ faults' \in 0..MaxFaults
           /\ \E n \in 0..Len(requests) :
                /\ Added(requests, n)
                /\ \/ n = Len(requests) /\ faults' = faults
                   \/ faults' = faults + 1
<1>1. CASE Succeeds /\ published' = published \o requests
  <2>1. published' \in Seq(T) /\ Added(requests, Len(requests))
    BY <1>1, AddedByConcat
  <2>2. Len(requests) \in 0..Len(requests)
    BY LenProperties
  <2> QED BY <1>1, <2>1, <2>2 DEF Succeeds
<1>2. CASE Fails /\ \E n \in 0..(Len(requests) - 1) :
                        published' = published \o SubSeq(requests, 1, n)
  <2>1. PICK n \in 0..(Len(requests) - 1) :
            published' = published \o SubSeq(requests, 1, n)
    BY <1>2
  <2>2. n \in 0..Len(requests)
    BY LenProperties
  <2>3. published' \in Seq(T) /\ Added(requests, n)
    BY <2>1, <2>2, AddedBySubSeq
  <2>4. faults' = faults + 1 /\ faults' \in 0..MaxFaults
    BY <1>2, NumbersAssumption DEF Fails
  <2> QED BY <2>2, <2>3, <2>4
<1> QED BY <1>1, <1>2 DEF Publish

(* The next MIN is one more, or 1 after the last.                          *)
LEMMA NextMinSteps ==
    ASSUME NEW k \in Pair, counters \in [Pair -> 0..MaxMin]
    PROVE  /\ NextMin(k) \in MIN
           /\ NextMin(k) = IF counters[k] = MaxMin THEN 1 ELSE counters[k] + 1
<1> DEFINE c == counters[k]
<1>1. c \in 0..MaxMin /\ MaxMin \in Nat \ {0}
  BY NumbersAssumption
<1>2. NextMin(k) = (c % MaxMin) + 1
  BY DEF NextMin
<1> HIDE DEF c
<1>3. CASE c = MaxMin
  <2>1. c % MaxMin = 0
    BY <1>1, <1>3
  <2> QED BY <1>1, <1>2, <1>3, <2>1 DEF c, MIN
<1>4. CASE c # MaxMin
  <2>1. c % MaxMin = c
    BY <1>1, <1>4
  <2> QED BY <1>1, <1>2, <1>4, <2>1 DEF c, MIN
<1> QED BY <1>3, <1>4

(* A set of seen messages stays within its limit; it holds what was added, *)
(* or it was emptied.                                                      *)
LEMMA MarkedBound ==
    ASSUME NEW set, IsFiniteSet(set), NEW x
    PROVE  /\ IsFiniteSet(Marked(set, x))
           /\ Cardinality(Marked(set, x)) <= SeenLimit
           /\ Marked(set, x) = set \cup {x} \/ Marked(set, x) = {}
<1>1. IsFiniteSet(set \cup {x}) /\ Cardinality(set \cup {x}) \in Nat
  BY FS_AddElement, FS_CardinalityType
<1>2. IsFiniteSet({}) /\ Cardinality({}) = 0
  BY FS_EmptySet
<1>3. CASE Cardinality(set \cup {x}) > SeenLimit
  BY <1>2, <1>3, NumbersAssumption DEF Marked
<1>4. CASE ~(Cardinality(set \cup {x}) > SeenLimit)
  BY <1>1, <1>4, NumbersAssumption DEF Marked
<1> QED BY <1>3, <1>4

LEMMA MessageSound ==
    ASSUME NEW kind \in {"status", "logon", "request", "response"}, NEW k \in Pair,
           NEW e \in 0..MaxEnvelopes
    PROVE  Message(kind, k, e) \in SoundPublication
<1>1. 0 \in Mrn
  BY NumbersAssumption DEF Mrn
<1> QED BY <1>1 DEF Message, SoundPublication, Publication

-----------------------------------------------------------------------------
(* DataInv holds initially and is kept by every action. *)

LEMMA InitData == Init => DataInv
<1> SUFFICES ASSUME Init PROVE DataInv
  OBVIOUS
<1>1. \A S : << >> \in Seq(S)
  BY EmptySeq
<1>2. QueuesInv
  BY <1>1, NumbersAssumption DEF Init, QueuesInv
<1>3. TrackerInv
  <2>1. IsFiniteSet({}) /\ Cardinality({}) = 0
    BY FS_EmptySet
  <2>2. seen \in SeenSets /\ seen.hoppie = {} /\ seen.openlink = {}
    BY DEF Init, SeenSets
  <2>3. \A k \in Pair, n \in MIN : minMap[<<k, n>>] \in {0, n}
    BY DEF Init
  <2>4. 0 \in 0..MaxMin
    BY NumbersAssumption
  <2>5. counters \in [Pair -> 0..MaxMin] /\ minMap \in [Pair \X MIN -> 0..MaxMin]
    BY <2>4 DEF Init
  <2>6. 0 <= SeenLimit
    BY NumbersAssumption
  <2>7. emptied \in BOOLEAN
    BY DEF Init
  <2> QED BY <2>1, <2>2, <2>3, <2>5, <2>6, <2>7 DEF TrackerInv
<1>4. HistoryInv
  BY <1>1, NumbersAssumption DEF Init, HistoryInv
<1> QED BY <1>2, <1>3, <1>4 DEF DataInv

LEMMA TrackerKept == TrackerInv /\ UNCHANGED tracker => TrackerInv'
BY DEF TrackerInv, tracker

LEMMA QueuesKept == QueuesInv /\ UNCHANGED <<outside, polling, batch>> => QueuesInv'
BY DEF QueuesInv, outside

LEMMA HistoryKept == HistoryInv /\ UNCHANGED <<published, told, faults>> => HistoryInv'
BY DEF HistoryInv

LEMMA SendPacketData ==
    ASSUME DataInv, NEW p \in Packet, SendPacket(p)
    PROVE  DataInv'
<1>1. p \in SoundPacket
  <2>1. CASE p.mrn = 0 /\ p.answers = 0
    BY <2>1 DEF SoundPacket
  <2>2. CASE \E i \in DOMAIN told :
               /\ told[i].says = "text"
               /\ p.mrn = told[i].min /\ p.answers = told[i].origin
    <3>1. PICK i \in DOMAIN told :
               /\ told[i].says = "text"
               /\ p.mrn = told[i].min /\ p.answers = told[i].origin
      BY <2>2
    <3>2. told[i] \in SoundTelling
      BY ElementOfSeq DEF DataInv, HistoryInv
    <3> QED BY <3>1, <3>2 DEF SoundTelling, SoundPacket
  <2> QED BY <2>1, <2>2 DEF SendPacket
<1>2. p.to \in Station
  BY DEF Packet
<1>3. hoppie' \in [Station -> Seq(SoundPacket)]
  <2>1. hoppie[p.to] \in Seq(SoundPacket)
    BY <1>2 DEF DataInv, QueuesInv
  <2>2. Append(hoppie[p.to], p) \in Seq(SoundPacket)
    BY <1>1, <2>1, AppendProperties
  <2> QED BY <1>2, <2>2 DEF DataInv, QueuesInv, SendPacket
<1>4. written' \in 0..MaxPackets
  BY NumbersAssumption DEF DataInv, QueuesInv, SendPacket
<1>5. QueuesInv'
  BY <1>3, <1>4 DEF DataInv, QueuesInv, SendPacket
<1>6. TrackerInv' /\ HistoryInv'
  BY TrackerKept, HistoryKept DEF DataInv, SendPacket
<1> QED BY <1>5, <1>6 DEF DataInv

LEMMA SendEnvelopeData ==
    ASSUME DataInv, NEW e \in Envelope, SendEnvelope(e)
    PROVE  DataInv'
<1>1. e \in SoundEnvelope
  BY DEF SoundEnvelope, SendEnvelope
<1>2. inbox' \in Seq(SoundEnvelope)
  BY <1>1, AppendProperties DEF DataInv, QueuesInv, SendEnvelope
<1>3. QueuesInv'
  BY <1>1, <1>2 DEF DataInv, QueuesInv, SendEnvelope
<1>4. TrackerInv' /\ HistoryInv'
  BY TrackerKept, HistoryKept DEF DataInv, SendEnvelope
<1> QED BY <1>3, <1>4 DEF DataInv

LEMMA RedeliverData ==
    ASSUME DataInv, NEW e \in arrived, Redeliver(e)
    PROVE  DataInv'
<1>1. e \in SoundEnvelope
  BY DEF DataInv, QueuesInv
<1>2. inbox' \in Seq(SoundEnvelope)
  BY <1>1, AppendProperties DEF DataInv, QueuesInv, Redeliver
<1>3. repeats' \in 0..MaxRepeats
  BY NumbersAssumption DEF DataInv, QueuesInv, Redeliver
<1>4. QueuesInv'
  BY <1>2, <1>3 DEF DataInv, QueuesInv, Redeliver
<1>5. TrackerInv' /\ HistoryInv'
  BY TrackerKept, HistoryKept DEF DataInv, Redeliver
<1> QED BY <1>4, <1>5 DEF DataInv

LEMMA TickData ==
    ASSUME DataInv, Tick
    PROVE  DataInv'
<1>1. QueuesInv'
  BY DEF DataInv, QueuesInv, Tick, outside
<1>2. TrackerInv' /\ HistoryInv'
  BY TrackerKept, HistoryKept DEF DataInv, Tick
<1> QED BY <1>1, <1>2 DEF DataInv

LEMMA PollData ==
    ASSUME DataInv, NEW s \in Station, Poll(s)
    PROVE  DataInv'
<1>1. hoppie' \in [Station -> Seq(SoundPacket)] /\ batch' \in Seq(SoundPacket)
  <2>1. /\ << >> \in Seq(SoundPacket)
        /\ hoppie \in [Station -> Seq(SoundPacket)] /\ batch \in Seq(SoundPacket)
    BY EmptySeq DEF DataInv, QueuesInv
  <2>2. /\ hoppie' = hoppie \/ hoppie' = [hoppie EXCEPT ![s] = << >>]
        /\ batch' = batch \/ batch' = hoppie[s]
    BY DEF Poll
  <2> QED BY <2>1, <2>2
<1>2. QueuesInv'
  BY <1>1 DEF DataInv, QueuesInv, Poll
<1>3. HistoryInv'
  <2>1. faults' \in 0..MaxFaults
    BY NumbersAssumption DEF DataInv, HistoryInv, Poll, Succeeds, Fails
  <2> QED BY <2>1 DEF DataInv, HistoryInv, Poll
<1>4. TrackerInv'
  BY TrackerKept DEF DataInv, Poll
<1> QED BY <1>2, <1>3, <1>4 DEF DataInv

(* Taking up a packet.                                                     *)
LEMMA TakeUpQueues ==
    ASSUME DataInv, NEW p, TakeUp(p)
    PROVE  QueuesInv' /\ p \in SoundPacket
<1>1. batch' \in Seq(SoundPacket) /\ p \in SoundPacket
  BY HeadTailProperties DEF DataInv, QueuesInv, TakeUp
<1>2. QueuesInv'
  BY <1>1 DEF DataInv, QueuesInv, TakeUp, outside
<1> QED BY <1>1, <1>2

LEMMA RememberTracker ==
    ASSUME DataInv, NEW p \in SoundPacket, Remember(p)
    PROVE  /\ seen' \in SeenSets
           /\ IsFiniteSet(seen'.hoppie) /\ Cardinality(seen'.hoppie) <= SeenLimit
           /\ seen'.openlink = seen.openlink
<1>1. seen \in SeenSets /\ IsFiniteSet(seen.hoppie)
  BY DEF DataInv, TrackerInv
<1>2. Hash(p) \in HashOf
  BY DEF Hash, HashOf, SoundPacket, Packet
<1>3. /\ IsFiniteSet(Marked(seen.hoppie, Hash(p)))
      /\ Cardinality(Marked(seen.hoppie, Hash(p))) <= SeenLimit
      /\ Marked(seen.hoppie, Hash(p)) \in SUBSET HashOf
  <2>1. seen.hoppie \in SUBSET HashOf
    BY <1>1 DEF SeenSets
  <2> QED BY <1>1, <1>2, <2>1, MarkedBound
<1>4. /\ seen' = [seen EXCEPT !.hoppie = Marked(seen.hoppie, Hash(p))]
  BY DEF Remember
<1>5. seen' = [hoppie |-> Marked(seen.hoppie, Hash(p)), openlink |-> seen.openlink]
  BY <1>1, <1>4 DEF SeenSets
<1>6. seen.openlink \in SUBSET (1..MaxEnvelopes)
  BY <1>1 DEF SeenSets
<1>7. seen' \in SeenSets
  BY <1>3, <1>5, <1>6 DEF SeenSets
<1>8. seen'.hoppie = Marked(seen.hoppie, Hash(p)) /\ seen'.openlink = seen.openlink
  BY <1>5
<1> QED BY <1>3, <1>7, <1>8

LEMMA RememberKeeps ==
    ASSUME DataInv, NEW p \in SoundPacket, Remember(p), UNCHANGED <<counters, minMap>>
    PROVE  TrackerInv'
<1>1. /\ seen' \in SeenSets
      /\ IsFiniteSet(seen'.hoppie) /\ Cardinality(seen'.hoppie) <= SeenLimit
      /\ seen'.openlink = seen.openlink
  BY RememberTracker
<1>2. emptied' = emptied
  BY DEF Remember
<1> QED BY <1>1, <1>2 DEF DataInv, TrackerInv

LEMMA SkipPacketData ==
    ASSUME DataInv, NEW p, SkipPacket(p)
    PROVE  DataInv'
<1>1. QueuesInv' /\ p \in SoundPacket
  BY TakeUpQueues DEF SkipPacket
<1>2. HistoryInv'
  BY HistoryKept DEF DataInv, SkipPacket, TakeUp
<1>3. TrackerInv'
  BY <1>1, TrackerKept, RememberKeeps DEF DataInv, SkipPacket
<1> QED BY <1>1, <1>2, <1>3 DEF DataInv

LEMMA RelayLogonData ==
    ASSUME DataInv, NEW p, RelayLogon(p)
    PROVE  DataInv'
<1> DEFINE k == <<p.from, p.to>>
           requests == <<Message("status", k, 0), Message("logon", k, 0)>>
<1>1. QueuesInv' /\ p \in SoundPacket
  BY TakeUpQueues DEF RelayLogon
<1>2. TrackerInv'
  BY <1>1, RememberKeeps DEF RelayLogon
<1>3. k \in Pair
  BY <1>1 DEF RelayLogon, SoundPacket, Packet, Pair
<1>4. Publish(requests) /\ told' = told
  BY DEF RelayLogon, TakeUp
<1> HIDE DEF k
<1>5. 0 \in 0..MaxEnvelopes
  BY NumbersAssumption
<1>6. /\ Message("status", k, 0) \in SoundPublication
      /\ Message("logon", k, 0) \in SoundPublication
  BY <1>3, <1>5, MessageSound
<1>7. requests \in Seq(SoundPublication) /\ requests # << >>
  BY <1>6
<1> HIDE DEF requests
<1>8. published' \in Seq(SoundPublication) /\ faults' \in 0..MaxFaults
  BY <1>4, <1>7, PublishAdds DEF DataInv, HistoryInv
<1>9. HistoryInv'
  BY <1>4, <1>8 DEF DataInv, HistoryInv
<1> QED BY <1>1, <1>2, <1>9 DEF DataInv

(* A reference is translated to itself.                                    *)
LEMMA TranslatedIsItself ==
    ASSUME TrackerInv, NEW k \in Pair, NEW mrn \in Mrn
    PROVE  Translated(k, mrn) = mrn
<1>1. CASE mrn = 0
  BY <1>1 DEF Translated
<1>2. CASE mrn # 0
  <2>1. mrn \in MIN
    BY <1>2, NumbersAssumption DEF Mrn, MIN
  <2>2. minMap[<<k, mrn>>] \in {0, mrn}
    BY <2>1 DEF TrackerInv
  <2> QED BY <2>2 DEF Translated
<1> QED BY <1>1, <1>2

(* What a text is relayed as.                                              *)
TextOf(p) ==
    LET k == <<p.from, p.to>> IN
    [kind |-> "text", pair |-> k, min |-> NextMin(k),
     mrn |-> Translated(k, p.mrn), answers |-> p.answers, for |-> 0]

LEMMA TextSound ==
    ASSUME TrackerInv, NEW p \in SoundPacket, p.from \notin Station
    PROVE  /\ TextOf(p) \in SoundPublication
           /\ <<p.from, p.to>> \in Pair
<1> DEFINE k == <<p.from, p.to>>
<1>1. /\ k \in Pair /\ p.mrn \in Mrn /\ p.answers \in Mrn
      /\ p.answers # 0 => p.mrn = p.answers
  BY DEF SoundPacket, Packet, Pair
<1>2. TextOf(p) = [kind |-> "text", pair |-> k, min |-> NextMin(k),
                   mrn |-> Translated(k, p.mrn), answers |-> p.answers, for |-> 0]
  BY DEF TextOf
<1> HIDE DEF k
<1>3. Translated(k, p.mrn) = p.mrn
  BY <1>1, TranslatedIsItself
<1>4. NextMin(k) \in MIN /\ NextMin(k) \in Mrn
  <2>1. NextMin(k) \in MIN
    BY <1>1, NextMinSteps DEF TrackerInv
  <2> QED BY <2>1, NumbersAssumption DEF MIN, Mrn
<1>5. 0 \in 0..MaxEnvelopes
  BY NumbersAssumption
<1>6. TextOf(p) \in SoundPublication
  BY <1>1, <1>2, <1>3, <1>4, <1>5 DEF SoundPublication, Publication
<1> QED BY <1>1, <1>6 DEF k

LEMMA RelayPacketTracker ==
    ASSUME DataInv, NEW p \in SoundPacket, RelayPacket(p), <<p.from, p.to>> \in Pair
    PROVE  TrackerInv'
<1> DEFINE k == <<p.from, p.to>>
<1>1. /\ seen' \in SeenSets
      /\ IsFiniteSet(seen'.hoppie) /\ Cardinality(seen'.hoppie) <= SeenLimit
      /\ seen'.openlink = seen.openlink
  BY RememberTracker DEF RelayPacket
<1>2. emptied' = emptied
  BY DEF RelayPacket, Remember
<1>3. /\ counters' = [counters EXCEPT ![k] = NextMin(k)]
      /\ minMap' = [minMap EXCEPT ![<<k, NextMin(k)>>] = NextMin(k)]
  BY DEF RelayPacket, Recorded
<1>4. k \in Pair
  OBVIOUS
<1> HIDE DEF k
<1>5. NextMin(k) \in MIN /\ NextMin(k) \in 0..MaxMin
  <2>1. NextMin(k) \in MIN
    BY <1>4, NextMinSteps DEF DataInv, TrackerInv
  <2> QED BY <2>1, NumbersAssumption DEF MIN
<1>6. counters' \in [Pair -> 0..MaxMin]
  BY <1>3, <1>5 DEF DataInv, TrackerInv
<1>7. minMap \in [Pair \X MIN -> 0..MaxMin]
  BY DEF DataInv, TrackerInv
<1>8. minMap' \in [Pair \X MIN -> 0..MaxMin]
  BY <1>3, <1>5, <1>7
<1>9. ASSUME NEW l \in Pair, NEW n \in MIN
      PROVE  minMap'[<<l, n>>] \in {0, n}
  <2>1. <<l, n>> \in Pair \X MIN
    OBVIOUS
  <2>2. minMap[<<l, n>>] \in {0, n}
    BY DEF DataInv, TrackerInv
  <2>3. CASE <<l, n>> = <<k, NextMin(k)>>
    BY <1>3, <1>7, <2>1, <2>3
  <2>4. CASE <<l, n>> # <<k, NextMin(k)>>
    BY <1>3, <1>7, <2>1, <2>2, <2>4
  <2> QED BY <2>3, <2>4
<1> QED BY <1>1, <1>2, <1>6, <1>8, <1>9 DEF DataInv, TrackerInv

LEMMA RelayPacketData ==
    ASSUME DataInv, NEW p, RelayPacket(p)
    PROVE  DataInv'
<1>1. QueuesInv' /\ p \in SoundPacket
  BY TakeUpQueues DEF RelayPacket
<1>2. TextOf(p) \in SoundPublication /\ <<p.from, p.to>> \in Pair
  BY <1>1, TextSound DEF RelayPacket, DataInv
<1>3. TrackerInv'
  BY <1>1, <1>2, RelayPacketTracker
<1>4. Publish(<<TextOf(p)>>) /\ told' = told
  BY DEF RelayPacket, TakeUp, TextOf
<1>5. <<TextOf(p)>> \in Seq(SoundPublication) /\ <<TextOf(p)>> # << >>
  BY <1>2
<1>6. published' \in Seq(SoundPublication) /\ faults' \in 0..MaxFaults
  BY <1>4, <1>5, PublishAdds DEF DataInv, HistoryInv
<1>7. HistoryInv'
  BY <1>4, <1>6 DEF DataInv, HistoryInv
<1> QED BY <1>1, <1>3, <1>7 DEF DataInv

(* Taking an envelope from the inbox.                                      *)
LEMMA ReceiveQueues ==
    ASSUME DataInv, NEW e, Receive(e)
    PROVE  QueuesInv' /\ e \in SoundEnvelope
<1>1. inbox' \in Seq(SoundEnvelope) /\ e \in SoundEnvelope
  BY HeadTailProperties DEF DataInv, QueuesInv, Receive
<1>2. QueuesInv'
  BY <1>1 DEF DataInv, QueuesInv, Receive
<1> QED BY <1>1, <1>2

LEMMA RememberIdTracker ==
    ASSUME DataInv, NEW e \in SoundEnvelope, RememberId(e), UNCHANGED <<counters, minMap>>
    PROVE  /\ TrackerInv'
           /\ e.id \notin seen.openlink
           /\ ~emptied' => ~emptied /\ seen'.openlink = seen.openlink \cup {e.id}
<1>1. seen \in SeenSets /\ IsFiniteSet(seen.openlink) /\ e.id \in 1..MaxEnvelopes
  BY DEF DataInv, TrackerInv, SoundEnvelope, Envelope
<1>2. /\ IsFiniteSet(Marked(seen.openlink, e.id))
      /\ Cardinality(Marked(seen.openlink, e.id)) <= SeenLimit
      /\ \/ Marked(seen.openlink, e.id) = seen.openlink \cup {e.id}
         \/ Marked(seen.openlink, e.id) = {}
  BY <1>1, MarkedBound
<1>3. Marked(seen.openlink, e.id) \in SUBSET (1..MaxEnvelopes)
  BY <1>1, <1>2 DEF SeenSets
<1>4. seen' = [seen EXCEPT !.openlink = Marked(seen.openlink, e.id)]
  BY DEF RememberId
<1>5. seen' = [hoppie |-> seen.hoppie, openlink |-> Marked(seen.openlink, e.id)]
  BY <1>1, <1>4 DEF SeenSets
<1>6. seen' \in SeenSets
  BY <1>1, <1>3, <1>5 DEF SeenSets
<1>7. seen'.hoppie = seen.hoppie /\ seen'.openlink = Marked(seen.openlink, e.id)
  BY <1>5
<1>8. emptied' = (emptied \/ seen'.openlink = {})
  BY DEF RememberId
<1>9. TrackerInv'
  <2>1. emptied' \in BOOLEAN
    BY <1>8 DEF DataInv, TrackerInv
  <2> QED BY <1>2, <1>6, <1>7, <2>1 DEF DataInv, TrackerInv
<1> QED BY <1>2, <1>7, <1>8, <1>9 DEF RememberId

LEMMA PacketForSound ==
    ASSUME NEW e \in SoundEnvelope, e.says \in {"accepted", "rejected", "text"}
    PROVE  PacketFor(e) \in SoundTelling
<1>1. 1 \in MIN
  BY NumbersAssumption DEF MIN
<1>2. /\ e.id \in 1..MaxEnvelopes /\ e.pair \in Pair /\ e.min \in Mrn /\ e.mrn \in Mrn
      /\ e.says = "text" => e.min \in MIN
  BY DEF SoundEnvelope, Envelope
<1> QED BY <1>1, <1>2 DEF PacketFor, SoundTelling, Telling

(* The pilot is told what the envelope says, or the request failed.        *)
LEMMA TellAppends ==
    ASSUME HistoryInv, NEW e \in SoundEnvelope, e.says \in {"accepted", "rejected", "text"},
           Tell(e)
    PROVE  /\ told' \in Seq(SoundTelling) /\ faults' \in 0..MaxFaults
           /\ told' = told \/ told' = Append(told, PacketFor(e))
           /\ faults' >= faults
<1>1. PacketFor(e) \in SoundTelling
  BY PacketForSound
<1>2. told \in Seq(SoundTelling) /\ faults \in 0..MaxFaults
  BY DEF HistoryInv
<1>3. Append(told, PacketFor(e)) \in Seq(SoundTelling)
  BY <1>1, <1>2, AppendProperties
<1> QED BY <1>2, <1>3, NumbersAssumption DEF Tell, Succeeds, Fails

LEMMA SkipEnvelopeData ==
    ASSUME DataInv, NEW e, SkipEnvelope(e)
    PROVE  DataInv'
<1>1. QueuesInv' /\ e \in SoundEnvelope
  BY ReceiveQueues DEF SkipEnvelope
<1>2. HistoryInv'
  BY HistoryKept DEF DataInv, SkipEnvelope
<1>3. UNCHANGED <<counters, minMap>>
  BY DEF SkipEnvelope, Receive
<1>4. CASE UNCHANGED <<seen, emptied>>
  BY <1>1, <1>2, <1>3, <1>4, TrackerKept DEF DataInv, tracker
<1>5. CASE RememberId(e)
  BY <1>1, <1>2, <1>3, <1>5, RememberIdTracker DEF DataInv
<1> QED BY <1>4, <1>5 DEF SkipEnvelope

LEMMA RelayEnvelopeData ==
    ASSUME DataInv, NEW e, RelayEnvelope(e)
    PROVE  DataInv'
<1>1. QueuesInv' /\ e \in SoundEnvelope
  BY ReceiveQueues DEF RelayEnvelope
<1>2. TrackerInv'
  BY <1>1, RememberIdTracker DEF RelayEnvelope, Receive
<1>3. told' \in Seq(SoundTelling) /\ faults' \in 0..MaxFaults
  BY <1>1, TellAppends DEF RelayEnvelope, DataInv
<1>4. HistoryInv'
  BY <1>3 DEF DataInv, HistoryInv, RelayEnvelope
<1> QED BY <1>1, <1>2, <1>4 DEF DataInv

(* What an accepted logon makes the bridge publish.                        *)
Requests(e) == <<Message("request", e.pair, e.id), Message("response", e.pair, e.id)>>

LEMMA RequestsSound ==
    ASSUME NEW e \in SoundEnvelope
    PROVE  /\ Requests(e) \in Seq(SoundPublication) /\ Len(Requests(e)) = 2
           /\ Requests(e)[1] = Message("request", e.pair, e.id)
           /\ Requests(e)[2] = Message("response", e.pair, e.id)
<1>1. e.pair \in Pair /\ e.id \in 0..MaxEnvelopes
  BY NumbersAssumption DEF SoundEnvelope, Envelope
<1>2. /\ Message("request", e.pair, e.id) \in SoundPublication
      /\ Message("response", e.pair, e.id) \in SoundPublication
  BY <1>1, MessageSound
<1> QED BY <1>2 DEF Requests

(* An accepted logon: both requests are published before the pilot is      *)
(* told.                                                                   *)
LEMMA RelayAcceptanceHistory ==
    ASSUME DataInv, NEW e \in SoundEnvelope, RelayAcceptance(e)
    PROVE  /\ HistoryInv' /\ faults' >= faults
           /\ \/ Added(Requests(e), 2) /\ (told' = told \/ told' = Append(told, PacketFor(e)))
              \/ \E n \in 0..1 : Added(Requests(e), n) /\ told' = told
<1>1. /\ Requests(e) \in Seq(SoundPublication) /\ Len(Requests(e)) = 2
      /\ published \in Seq(SoundPublication)
  BY RequestsSound DEF DataInv, HistoryInv
<1>2. CASE published' = published \o Requests(e) /\ Tell(e)
  <2>1. published' \in Seq(SoundPublication) /\ Added(Requests(e), 2)
    BY <1>1, <1>2, AddedByConcat
  <2>2. /\ told' \in Seq(SoundTelling) /\ faults' \in 0..MaxFaults
        /\ told' = told \/ told' = Append(told, PacketFor(e))
        /\ faults' >= faults
    BY <1>2, TellAppends DEF DataInv, RelayAcceptance
  <2> QED BY <2>1, <2>2 DEF HistoryInv
<1>3. CASE Fails /\ UNCHANGED told
           /\ \E n \in 0..1 : published' = published \o SubSeq(Requests(e), 1, n)
  <2>1. PICK n \in 0..1 : published' = published \o SubSeq(Requests(e), 1, n)
    BY <1>3
  <2>2. published' \in Seq(SoundPublication) /\ Added(Requests(e), n)
    <3>1. n \in 0..Len(Requests(e))
      BY <1>1
    <3> QED BY <1>1, <2>1, <3>1, AddedBySubSeq
  <2>3. faults' \in 0..MaxFaults /\ faults' >= faults
    BY <1>3, NumbersAssumption DEF Fails, DataInv, HistoryInv
  <2> QED BY <1>3, <2>2, <2>3 DEF HistoryInv, DataInv
<1> QED BY <1>2, <1>3 DEF RelayAcceptance, Requests

LEMMA RelayAcceptanceData ==
    ASSUME DataInv, NEW e, RelayAcceptance(e)
    PROVE  DataInv'
<1>1. QueuesInv' /\ e \in SoundEnvelope
  BY ReceiveQueues DEF RelayAcceptance
<1>2. TrackerInv'
  BY <1>1, RememberIdTracker DEF RelayAcceptance, Receive
<1>3. HistoryInv'
  BY <1>1, RelayAcceptanceHistory
<1> QED BY <1>1, <1>2, <1>3 DEF DataInv

LEMMA StepData == DataInv /\ [Next]_vars => DataInv'
<1> SUFFICES ASSUME DataInv, [Next]_vars PROVE DataInv'
  OBVIOUS
<1>1. CASE \E p \in Packet : SendPacket(p)
  BY <1>1, SendPacketData
<1>2. CASE \E e \in Envelope : SendEnvelope(e)
  BY <1>2, SendEnvelopeData
<1>3. CASE \E e \in arrived : Redeliver(e)
  BY <1>3, RedeliverData
<1>4. CASE Tick
  BY <1>4, TickData
<1>5. CASE \E s \in Station : Poll(s)
  BY <1>5, PollData
<1>6. CASE HandlePacket
  BY <1>6, SkipPacketData, RelayLogonData, RelayPacketData DEF HandlePacket
<1>7. CASE HandleEnvelope
  BY <1>7, SkipEnvelopeData, RelayEnvelopeData, RelayAcceptanceData DEF HandleEnvelope
<1>8. CASE UNCHANGED vars
  BY <1>8 DEF vars, DataInv, QueuesInv, TrackerInv, HistoryInv
<1> QED BY <1>1, <1>2, <1>3, <1>4, <1>5, <1>6, <1>7, <1>8 DEF Next

LEMMA DataAlways == Spec => []DataInv
<1> QED BY InitData, StepData, PTL DEF Spec

LEMMA DataTypes == DataInv => TypeOK
<1> SUFFICES ASSUME DataInv PROVE TypeOK
  OBVIOUS
<1>1. /\ SoundPacket \subseteq Packet /\ SoundEnvelope \subseteq Envelope
      /\ SoundPublication \subseteq Publication /\ SoundTelling \subseteq Telling
  BY DEF SoundPacket, SoundEnvelope, SoundPublication, SoundTelling
<1>2. hoppie \in [Station -> Seq(Packet)] /\ batch \in Seq(Packet)
  <2>1. Seq(SoundPacket) \subseteq Seq(Packet)
    BY <1>1, SeqMonotonic
  <2> QED BY <2>1 DEF DataInv, QueuesInv
<1>3. inbox \in Seq(Envelope)
  BY <1>1, SeqMonotonic DEF DataInv, QueuesInv
<1>4. published \in Seq(Publication) /\ told \in Seq(Telling)
  <2>1. Seq(SoundPublication) \subseteq Seq(Publication) /\ Seq(SoundTelling) \subseteq Seq(Telling)
    BY <1>1, SeqMonotonic
  <2> QED BY <2>1 DEF DataInv, HistoryInv
<1> QED BY <1>1, <1>2, <1>3, <1>4 DEF DataInv, QueuesInv, TrackerInv, HistoryInv, TypeOK

(* The types, and the sets of seen messages within their limit.            *)
THEOREM TypeCorrect == Spec => []TypeOK
<1> QED BY DataAlways, DataTypes, PTL

LEMMA DataAnswers == DataInv => AnswersResolve
<1> SUFFICES ASSUME DataInv, NEW i \in Places("text"), published[i].answers # 0
             PROVE  published[i].mrn = published[i].answers
  BY DEF AnswersResolve
<1>1. published[i] \in SoundPublication /\ published[i].kind = "text"
  BY ElementOfSeq DEF Places, DataInv, HistoryInv
<1> QED BY <1>1 DEF SoundPublication

(* A pilot's answer carries the MIN of the controller's message: texts are *)
(* told under the MIN they came with, and the map that references are      *)
(* translated with only ever maps a MIN to itself.                         *)
THEOREM AnswersAlwaysResolve == Spec => []AnswersResolve
<1> QED BY DataAlways, DataAnswers, PTL

-----------------------------------------------------------------------------
(* What a step does to the histories. *)

(* What was published stays.                                               *)
Grows ==
    /\ Len(published') >= Len(published)
    /\ \A i \in 1..Len(published) : published'[i] = published[i]

LEMMA AddedGrows ==
    ASSUME NEW requests, NEW n \in Nat, Added(requests, n), HistoryInv
    PROVE  Grows
<1>1. Len(published) \in Nat
  BY LenProperties DEF HistoryInv
<1> QED BY <1>1 DEF Added, Grows

LEMMA LengthsAreNat ==
    ASSUME HistoryInv
    PROVE  /\ Len(published) \in Nat /\ DOMAIN published = 1..Len(published)
           /\ Len(told) \in Nat /\ DOMAIN told = 1..Len(told)
BY LenProperties DEF HistoryInv

(* An entry is an old one at its place, or one of those added.             *)
LEMMA AddedPlaces ==
    ASSUME NEW requests, NEW n \in Nat, Added(requests, n), HistoryInv, HistoryInv',
           NEW i \in DOMAIN published'
    PROVE  \/ i \in DOMAIN published /\ published'[i] = published[i]
           \/ \E m \in 1..n : i = Len(published) + m /\ published'[i] = requests[m]
<1>1. /\ Len(published) \in Nat /\ DOMAIN published = 1..Len(published)
      /\ DOMAIN published' = 1..Len(published') /\ Len(published') = Len(published) + n
  BY LengthsAreNat DEF Added
<1>2. CASE i <= Len(published)
  BY <1>1, <1>2 DEF Added
<1>3. CASE ~(i <= Len(published))
  <2>1. i - Len(published) \in 1..n /\ i = Len(published) + (i - Len(published))
    BY <1>1, <1>3
  <2>2. published'[i] = requests[i - Len(published)]
    BY <2>1 DEF Added
  <2> QED BY <2>1, <2>2
<1> QED BY <1>2, <1>3

(* The same for what pilots were told.                                     *)
LEMMA ToldPlaces ==
    ASSUME NEW x \in SoundTelling, HistoryInv, told' = Append(told, x),
           NEW t \in DOMAIN told'
    PROVE  \/ t \in DOMAIN told /\ told'[t] = told[t]
           \/ t = Len(told) + 1 /\ told'[t] = x
<1>1. told \in Seq(SoundTelling) /\ Len(told) \in Nat /\ DOMAIN told = 1..Len(told)
  BY LengthsAreNat DEF HistoryInv
<1>2. /\ DOMAIN told' = 1..(Len(told) + 1)
      /\ \A i \in 1..Len(told) : told'[i] = told[i]
      /\ told'[Len(told) + 1] = x
  BY <1>1, AppendProperties, LenProperties
<1> QED BY <1>1, <1>2

(* Nothing is published or told, no counter moves, and what was relayed    *)
(* stays remembered unless the set is emptied.                             *)
Quiet ==
    /\ UNCHANGED <<published, told, counters>>
    /\ faults' >= faults
    /\ ~emptied' => ~emptied /\ seen.openlink \subseteq seen'.openlink

LEMMA QuietSteps ==
    ASSUME DataInv, [Next]_vars
    PROVE  \/ Quiet
           \/ batch # << >> /\ (RelayLogon(Head(batch)) \/ RelayPacket(Head(batch)))
           \/ inbox # << >> /\ (RelayEnvelope(Head(inbox)) \/ RelayAcceptance(Head(inbox)))
<1>1. faults \in Nat
  BY NumbersAssumption DEF DataInv, HistoryInv
<1>2. CASE \E p \in Packet : SendPacket(p)
  <2>1. UNCHANGED <<published, told, faults, tracker>>
    BY <1>2 DEF SendPacket
  <2> QED BY <1>1, <2>1 DEF Quiet, tracker
<1>3. CASE \E e \in Envelope : SendEnvelope(e)
  <2>1. UNCHANGED <<published, told, faults, tracker>>
    BY <1>3 DEF SendEnvelope
  <2> QED BY <1>1, <2>1 DEF Quiet, tracker
<1>4. CASE \E e \in arrived : Redeliver(e)
  <2>1. UNCHANGED <<published, told, faults, tracker>>
    BY <1>4 DEF Redeliver
  <2> QED BY <1>1, <2>1 DEF Quiet, tracker
<1>5. CASE Tick
  BY <1>1, <1>5 DEF Quiet, tracker, Tick
<1>6. CASE \E s \in Station : Poll(s)
  <2>1. UNCHANGED <<published, told, tracker>> /\ (faults' = faults \/ faults' = faults + 1)
    BY <1>6 DEF Poll, Succeeds, Fails
  <2> QED BY <1>1, <2>1 DEF Quiet, tracker
<1>7. ASSUME NEW p, SkipPacket(p)
      PROVE  Quiet
  <2>1. p \in SoundPacket
    BY <1>7, TakeUpQueues DEF SkipPacket
  <2>2. UNCHANGED <<published, told, faults, counters>>
    BY <1>7 DEF SkipPacket, TakeUp, tracker
  <2>3. emptied' = emptied /\ seen'.openlink = seen.openlink
    BY <1>7, <2>1, RememberTracker DEF SkipPacket, tracker, Remember
  <2> QED BY <1>1, <2>2, <2>3 DEF Quiet
<1>8. ASSUME NEW e, SkipEnvelope(e)
      PROVE  Quiet
  <2>1. e \in SoundEnvelope
    BY <1>8, ReceiveQueues DEF SkipEnvelope
  <2>2. UNCHANGED <<published, told, faults, counters, minMap>>
    BY <1>8 DEF SkipEnvelope, Receive
  <2>3. ~emptied' => ~emptied /\ seen.openlink \subseteq seen'.openlink
    <3>1. CASE UNCHANGED <<seen, emptied>>
      BY <3>1
    <3>2. CASE RememberId(e)
      <4>1. ~emptied' => ~emptied /\ seen'.openlink = seen.openlink \cup {e.id}
        BY <2>1, <2>2, <3>2, RememberIdTracker
      <4> QED BY <4>1
    <3> QED BY <1>8, <3>1, <3>2 DEF SkipEnvelope
  <2> QED BY <1>1, <2>2, <2>3 DEF Quiet
<1>9. CASE HandlePacket
  BY <1>7, <1>9 DEF HandlePacket
<1>10. CASE HandleEnvelope
  BY <1>8, <1>10 DEF HandleEnvelope
<1>11. CASE UNCHANGED vars
  BY <1>1, <1>11 DEF vars, Quiet
<1> QED BY <1>2, <1>3, <1>4, <1>5, <1>6, <1>9, <1>10, <1>11 DEF Next

(* A relayed logon publishes no more than a status and a logon.            *)
LEMMA RelayLogonHistory ==
    ASSUME DataInv, NEW p, RelayLogon(p)
    PROVE  \E requests \in Seq(SoundPublication), n \in 0..2 :
             /\ Added(requests, n)
             /\ \A m \in 1..n : requests[m].kind \in {"status", "logon"}
             /\ UNCHANGED <<told, counters, emptied>> /\ seen'.openlink = seen.openlink
             /\ faults' >= faults
<1> DEFINE k == <<p.from, p.to>>
           requests == <<Message("status", k, 0), Message("logon", k, 0)>>
<1>1. p \in SoundPacket
  BY TakeUpQueues DEF RelayLogon
<1>2. k \in Pair
  BY <1>1 DEF RelayLogon, SoundPacket, Packet, Pair
<1>3. /\ Publish(requests)
      /\ UNCHANGED <<told, counters, emptied>> /\ seen'.openlink = seen.openlink
  BY <1>1, RememberTracker DEF RelayLogon, TakeUp, Remember
<1> HIDE DEF k
<1>4. /\ Message("status", k, 0) \in SoundPublication
      /\ Message("logon", k, 0) \in SoundPublication
      /\ Message("status", k, 0).kind = "status" /\ Message("logon", k, 0).kind = "logon"
  <2>1. 0 \in 0..MaxEnvelopes
    BY NumbersAssumption
  <2>2. Message("status", k, 0).kind = "status" /\ Message("logon", k, 0).kind = "logon"
    BY DEF Message
  <2> QED BY <1>2, <2>1, <2>2, MessageSound
<1>5. /\ requests \in Seq(SoundPublication) /\ requests # << >> /\ Len(requests) = 2
      /\ \A m \in 1..2 : requests[m].kind \in {"status", "logon"}
  BY <1>4
<1> HIDE DEF requests
<1>6. PICK n \in 0..2 : Added(requests, n) /\ (faults' = faults \/ faults' = faults + 1)
  <2>1. published \in Seq(SoundPublication) /\ faults \in 0..MaxFaults
    BY DEF DataInv, HistoryInv
  <2> QED BY <1>3, <1>5, <2>1, PublishAdds
<1>7. faults' >= faults
  BY <1>6, NumbersAssumption DEF DataInv, HistoryInv
<1> QED BY <1>3, <1>5, <1>6, <1>7

(* A relayed text is published under the next MIN, or it is lost.          *)
LEMMA RelayPacketHistory ==
    ASSUME DataInv, NEW p, RelayPacket(p)
    PROVE  /\ TextOf(p) \in SoundPublication /\ TextOf(p).kind = "text"
           /\ TextOf(p).pair \in Pair /\ TextOf(p).min = NextMin(TextOf(p).pair)
           /\ UNCHANGED <<told, emptied>> /\ seen'.openlink = seen.openlink
           /\ counters' = [counters EXCEPT ![TextOf(p).pair] = NextMin(TextOf(p).pair)]
           /\ \E n \in 0..1 : Added(<<TextOf(p)>>, n)
                 /\ ((n = 1 /\ faults' = faults) \/ faults' = faults + 1)
<1>1. p \in SoundPacket
  BY TakeUpQueues DEF RelayPacket
<1>2. TextOf(p) \in SoundPublication /\ <<p.from, p.to>> \in Pair
  BY <1>1, TextSound DEF RelayPacket, DataInv
<1>3. /\ TextOf(p).kind = "text" /\ TextOf(p).pair = <<p.from, p.to>>
      /\ TextOf(p).min = NextMin(<<p.from, p.to>>)
  BY DEF TextOf
<1>4. /\ Publish(<<TextOf(p)>>)
      /\ UNCHANGED <<told, emptied>> /\ seen'.openlink = seen.openlink
      /\ counters' = [counters EXCEPT ![<<p.from, p.to>>] = NextMin(<<p.from, p.to>>)]
  BY <1>1, RememberTracker DEF RelayPacket, TakeUp, Remember, TextOf
<1>5. /\ <<TextOf(p)>> \in Seq(SoundPublication) /\ <<TextOf(p)>> # << >>
      /\ Len(<<TextOf(p)>>) = 1
  BY <1>2
<1>6. \E n \in 0..1 : Added(<<TextOf(p)>>, n)
                 /\ ((n = 1 /\ faults' = faults) \/ faults' = faults + 1)
  <2>1. published \in Seq(SoundPublication) /\ faults \in 0..MaxFaults
    BY DEF DataInv, HistoryInv
  <2> QED BY <1>4, <1>5, <2>1, PublishAdds
<1> QED BY <1>2, <1>3, <1>4, <1>6

(* A message or a refusal is told, or lost.                                *)
LEMMA RelayEnvelopeHistory ==
    ASSUME DataInv, NEW e, RelayEnvelope(e)
    PROVE  /\ e \in SoundEnvelope /\ PacketFor(e) \in SoundTelling
           /\ PacketFor(e).says # "accepted" /\ PacketFor(e).for = e.id
           /\ UNCHANGED <<published, counters>> /\ faults' >= faults
           /\ told' = told \/ told' = Append(told, PacketFor(e))
           /\ e.id \notin seen.openlink
           /\ ~emptied' => ~emptied /\ seen'.openlink = seen.openlink \cup {e.id}
<1>1. e \in SoundEnvelope
  BY ReceiveQueues DEF RelayEnvelope
<1>2. e.says \in {"text", "rejected"} /\ Tell(e)
      /\ UNCHANGED <<published, counters, minMap>> /\ RememberId(e)
  BY DEF RelayEnvelope, Receive
<1>3. PacketFor(e) \in SoundTelling
  BY <1>1, <1>2, PacketForSound
<1>4. PacketFor(e).says # "accepted" /\ PacketFor(e).for = e.id
  BY <1>2 DEF PacketFor
<1>5. (told' = told \/ told' = Append(told, PacketFor(e))) /\ faults' >= faults
  BY <1>1, <1>2, TellAppends DEF DataInv
<1>6. /\ e.id \notin seen.openlink
      /\ ~emptied' => ~emptied /\ seen'.openlink = seen.openlink \cup {e.id}
  BY <1>1, <1>2, RememberIdTracker
<1> QED BY <1>1, <1>2, <1>3, <1>4, <1>5, <1>6

LEMMA RelayAcceptanceTracker ==
    ASSUME DataInv, NEW e, RelayAcceptance(e)
    PROVE  /\ e \in SoundEnvelope /\ PacketFor(e) \in SoundTelling
           /\ PacketFor(e).for = e.id /\ PacketFor(e).pair = e.pair
           /\ counters' = counters
           /\ e.id \notin seen.openlink
           /\ ~emptied' => ~emptied /\ seen'.openlink = seen.openlink \cup {e.id}
<1>1. e \in SoundEnvelope
  BY ReceiveQueues DEF RelayAcceptance
<1>2. e.says = "accepted" /\ UNCHANGED <<counters, minMap>> /\ RememberId(e)
  BY DEF RelayAcceptance, Receive
<1>3. PacketFor(e) \in SoundTelling
  BY <1>1, <1>2, PacketForSound
<1>4. PacketFor(e).for = e.id /\ PacketFor(e).pair = e.pair
  BY DEF PacketFor
<1>5. /\ e.id \notin seen.openlink
      /\ ~emptied' => ~emptied /\ seen'.openlink = seen.openlink \cup {e.id}
  BY <1>1, <1>2, RememberIdTracker
<1> QED BY <1>1, <1>2, <1>3, <1>4, <1>5

-----------------------------------------------------------------------------
(* Accepted logons are backed. *)

(* The request and the answer for the acceptance at place t are published. *)
Backed(t) ==
    \E i \in Places("request"), j \in Places("response") :
        /\ i < j
        /\ published[i].for = told[t].for /\ published[j].for = told[t].for
        /\ published[i].pair = told[t].pair /\ published[j].pair = told[t].pair

LEMMA BackedStays ==
    ASSUME HistoryInv, HistoryInv', Grows, NEW t, told'[t] = told[t], Backed(t)
    PROVE  Backed(t)'
<1>1. PICK i \in Places("request"), j \in Places("response") :
        /\ i < j
        /\ published[i].for = told[t].for /\ published[j].for = told[t].for
        /\ published[i].pair = told[t].pair /\ published[j].pair = told[t].pair
  BY DEF Backed
<1>2. /\ Len(published) \in Nat /\ DOMAIN published = 1..Len(published)
      /\ Len(published') \in Nat /\ DOMAIN published' = 1..Len(published')
  BY LengthsAreNat
<1>3. /\ i \in DOMAIN published' /\ published'[i] = published[i]
      /\ j \in DOMAIN published' /\ published'[j] = published[j]
  BY <1>1, <1>2 DEF Places, Grows
<1>4. i \in Places("request")' /\ j \in Places("response")'
  BY <1>1, <1>3 DEF Places
<1> QED BY <1>1, <1>3, <1>4 DEF Backed

LEMMA InitBacked == Init => AcceptanceIsBacked
BY DEF Init, AcceptanceIsBacked

LEMMA StepBacked == DataInv /\ DataInv' /\ AcceptanceIsBacked /\ [Next]_vars => AcceptanceIsBacked'
<1> SUFFICES ASSUME DataInv, DataInv', AcceptanceIsBacked, [Next]_vars,
                    NEW t \in DOMAIN told', told'[t].says = "accepted"
             PROVE  Backed(t)'
  BY DEF AcceptanceIsBacked, Backed
<1>1. HistoryInv /\ HistoryInv'
  BY DEF DataInv
<1>2. ASSUME Grows, t \in DOMAIN told, told'[t] = told[t]
      PROVE  Backed(t)'
  BY <1>1, <1>2, BackedStays DEF AcceptanceIsBacked, Backed
<1>3. CASE Quiet
  <2>1. Grows
    BY <1>1, <1>3, LengthsAreNat DEF Quiet, Grows
  <2> QED BY <1>2, <1>3, <2>1 DEF Quiet
<1>4. CASE batch # << >> /\ RelayLogon(Head(batch))
  <2>1. PICK requests \in Seq(SoundPublication), n \in 0..2 :
             Added(requests, n) /\ told' = told
    BY <1>4, RelayLogonHistory
  <2>2. Grows
    BY <1>1, <2>1, AddedGrows
  <2> QED BY <1>2, <2>1, <2>2
<1>5. CASE batch # << >> /\ RelayPacket(Head(batch))
  <2>1. PICK n \in 0..1 : Added(<<TextOf(Head(batch))>>, n) /\ told' = told
    BY <1>5, RelayPacketHistory
  <2>2. Grows
    BY <1>1, <2>1, AddedGrows
  <2> QED BY <1>2, <2>1, <2>2
<1>6. CASE inbox # << >> /\ RelayEnvelope(Head(inbox))
  <2> DEFINE x == PacketFor(Head(inbox))
  <2>1. /\ published' = published /\ x \in SoundTelling /\ x.says # "accepted"
        /\ told' = told \/ told' = Append(told, x)
    BY <1>6, RelayEnvelopeHistory
  <2> HIDE DEF x
  <2>2. Grows
    BY <1>1, <2>1, LengthsAreNat DEF Grows
  <2>3. t \in DOMAIN told /\ told'[t] = told[t]
    BY <1>1, <2>1, ToldPlaces
  <2> QED BY <1>2, <2>2, <2>3
<1>7. CASE inbox # << >> /\ RelayAcceptance(Head(inbox))
  <2> DEFINE e == Head(inbox)
             x == PacketFor(e)
  <2>1. e \in SoundEnvelope /\ x \in SoundTelling /\ x.for = e.id /\ x.pair = e.pair
    BY <1>7, RelayAcceptanceTracker
  <2>2. \/ Added(Requests(e), 2) /\ (told' = told \/ told' = Append(told, x))
        \/ \E n \in 0..1 : Added(Requests(e), n) /\ told' = told
    BY <1>7, <2>1, RelayAcceptanceHistory
  <2>3. /\ Requests(e)[1] = Message("request", e.pair, e.id)
        /\ Requests(e)[2] = Message("response", e.pair, e.id)
    BY <2>1, RequestsSound
  <2> HIDE DEF e, x
  <2>4. Grows
    BY <1>1, <2>2, AddedGrows
  <2>5. CASE t \in DOMAIN told /\ told'[t] = told[t]
    BY <1>2, <2>4, <2>5
  <2>6. CASE ~(t \in DOMAIN told /\ told'[t] = told[t])
    <3>1. Added(Requests(e), 2) /\ told'[t] = x
      <4>1. told' # told
        BY <2>6
      <4>2. Added(Requests(e), 2) /\ told' = Append(told, x)
        BY <2>2, <4>1
      <4> QED BY <1>1, <2>1, <2>6, <4>2, ToldPlaces
    <3> DEFINE i == Len(published) + 1
               j == Len(published) + 2
    <3>2. /\ published'[i] = Requests(e)[1] /\ published'[j] = Requests(e)[2]
          /\ i \in DOMAIN published' /\ j \in DOMAIN published' /\ i < j
      BY <1>1, <3>1, LengthsAreNat DEF Added
    <3> HIDE DEF i, j
    <3>3. /\ published'[i].kind = "request" /\ published'[j].kind = "response"
          /\ published'[i].for = e.id /\ published'[j].for = e.id
          /\ published'[i].pair = e.pair /\ published'[j].pair = e.pair
      BY <2>3, <3>2 DEF Message
    <3>4. i \in Places("request")' /\ j \in Places("response")'
      BY <3>2, <3>3 DEF Places
    <3> QED BY <2>1, <3>1, <3>2, <3>3, <3>4 DEF Backed
  <2> QED BY <2>5, <2>6
<1> QED BY <1>3, <1>4, <1>5, <1>6, <1>7, QuietSteps

(* A pilot reads LOGON ACCEPTED only after the request and the answer that *)
(* make the connection were published, in that order: a failed publish     *)
(* ends the handler before the pilot is told.                              *)
THEOREM AcceptanceAlwaysBacked == Spec => []AcceptanceIsBacked
<1>1. Init => DataInv /\ AcceptanceIsBacked
  BY InitData, InitBacked
<1>2. DataInv /\ AcceptanceIsBacked /\ [Next]_vars => (DataInv /\ AcceptanceIsBacked)'
  BY StepData, StepBacked
<1> QED BY <1>1, <1>2, PTL DEF Spec

-----------------------------------------------------------------------------
(* An envelope is relayed once. *)

(* A new entry of a step is for an envelope that was not remembered.       *)
OnceInv == SeenInv /\ RelayedOnce

LEMMA InitOnce == Init => OnceInv
BY DEF Init, OnceInv, SeenInv, RelayedOnce, Places

(* A step that adds requests or tells nothing but for envelope id, which   *)
(* was not remembered and is now.                                          *)
LEMMA OnceKept ==
    ASSUME OnceInv, HistoryInv, HistoryInv', ~emptied' => ~emptied, NEW id,
           ~emptied' => seen.openlink \subseteq seen'.openlink,
           \A i \in Places("request")' :
               \/ i \in Places("request") /\ published'[i] = published[i]
               \/ /\ i = Len(published) + 1 /\ published'[i].for = id
                  /\ id \notin seen.openlink
                  /\ ~emptied' => id \in seen'.openlink,
           \A t \in DOMAIN told' :
               \/ t \in DOMAIN told /\ told'[t] = told[t]
               \/ /\ t = Len(told) + 1 /\ told'[t].for = id
                  /\ id \notin seen.openlink
                  /\ ~emptied' => id \in seen'.openlink
    PROVE  OnceInv'
<1> SUFFICES ASSUME ~emptied' PROVE OnceInv'
  BY DEF OnceInv, SeenInv, RelayedOnce
<1>1. /\ \A i \in Places("request") : published[i].for \in seen.openlink
      /\ \A t \in DOMAIN told : told[t].for \in seen.openlink
      /\ \A i, j \in Places("request") : published[i].for = published[j].for => i = j
      /\ \A s, t \in DOMAIN told : told[s].for = told[t].for => s = t
  BY DEF OnceInv, SeenInv, RelayedOnce
<1>2. SeenInv'
  BY <1>1 DEF SeenInv
<1>3. ASSUME NEW i \in Places("request")', NEW j \in Places("request")',
             published'[i].for = published'[j].for
      PROVE  i = j
  <2> DEFINE Old(n) == n \in Places("request") /\ published'[n] = published[n]
             New(n) == /\ n = Len(published) + 1 /\ published'[n].for = id
                       /\ id \notin seen.openlink
  <2>1. (Old(i) \/ New(i)) /\ (Old(j) \/ New(j))
    OBVIOUS
  <2>2. CASE Old(i) /\ Old(j)
    BY <1>1, <1>3, <2>2
  <2>3. CASE New(i) /\ New(j)
    BY <2>3
  <2>4. CASE Old(i) /\ New(j)
    BY <1>1, <1>3, <2>4
  <2>5. CASE New(i) /\ Old(j)
    BY <1>1, <1>3, <2>5
  <2> QED BY <2>1, <2>2, <2>3, <2>4, <2>5
<1>4. ASSUME NEW s \in DOMAIN told', NEW t \in DOMAIN told', told'[s].for = told'[t].for
      PROVE  s = t
  <2> DEFINE Old(n) == n \in DOMAIN told /\ told'[n] = told[n]
             New(n) == n = Len(told) + 1 /\ told'[n].for = id /\ id \notin seen.openlink
  <2>1. (Old(s) \/ New(s)) /\ (Old(t) \/ New(t))
    OBVIOUS
  <2>2. CASE Old(s) /\ Old(t)
    BY <1>1, <1>4, <2>2
  <2>3. CASE New(s) /\ New(t)
    BY <2>3
  <2>4. CASE Old(s) /\ New(t)
    BY <1>1, <1>4, <2>4
  <2>5. CASE New(s) /\ Old(t)
    BY <1>1, <1>4, <2>5
  <2> QED BY <2>1, <2>2, <2>3, <2>4, <2>5
<1> QED BY <1>2, <1>3, <1>4 DEF OnceInv, RelayedOnce

LEMMA AddedKinds ==
    ASSUME NEW requests, NEW n \in Nat, Added(requests, n), HistoryInv, HistoryInv', NEW kind,
           \A m \in 1..n : requests[m].kind # kind
    PROVE  \A i \in Places(kind)' : i \in Places(kind) /\ published'[i] = published[i]
<1> SUFFICES ASSUME NEW i \in Places(kind)'
             PROVE  i \in Places(kind) /\ published'[i] = published[i]
  OBVIOUS
<1>1. i \in DOMAIN published' /\ published'[i].kind = kind
  BY DEF Places
<1>2. i \in DOMAIN published /\ published'[i] = published[i]
  BY <1>1, AddedPlaces
<1> QED BY <1>1, <1>2 DEF Places

LEMMA StepOnce == DataInv /\ DataInv' /\ OnceInv /\ [Next]_vars => OnceInv'
<1> SUFFICES ASSUME DataInv, DataInv', OnceInv, [Next]_vars PROVE OnceInv'
  OBVIOUS
<1>1. HistoryInv /\ HistoryInv'
  BY DEF DataInv
<1>2. CASE Quiet
  <2>1. UNCHANGED <<published, told>>
        /\ (~emptied' => ~emptied /\ seen.openlink \subseteq seen'.openlink)
    BY <1>2 DEF Quiet
  <2>2. Places("request")' = Places("request")
    BY <2>1 DEF Places
  <2> QED BY <1>1, <2>1, <2>2, OnceKept
<1>3. CASE batch # << >> /\ RelayLogon(Head(batch))
  <2>1. PICK requests \in Seq(SoundPublication), n \in 0..2 :
             /\ Added(requests, n)
             /\ \A m \in 1..n : requests[m].kind \in {"status", "logon"}
             /\ UNCHANGED <<told, emptied>> /\ seen'.openlink = seen.openlink
    BY <1>3, RelayLogonHistory
  <2>2. \A i \in Places("request")' : i \in Places("request") /\ published'[i] = published[i]
    <3>1. \A m \in 1..n : requests[m].kind # "request"
      BY <2>1
    <3> QED BY <1>1, <2>1, <3>1, AddedKinds
  <2> QED BY <1>1, <2>1, <2>2, OnceKept
<1>4. CASE batch # << >> /\ RelayPacket(Head(batch))
  <2> DEFINE m == TextOf(Head(batch))
  <2>1. /\ m.kind = "text"
        /\ UNCHANGED <<told, emptied>> /\ seen'.openlink = seen.openlink
    BY <1>4, RelayPacketHistory
  <2>2. PICK n \in 0..1 : Added(<<m>>, n)
    BY <1>4, RelayPacketHistory
  <2> HIDE DEF m
  <2>3. \A i \in 1..n : <<m>>[i].kind # "request"
    BY <2>1
  <2>4. \A i \in Places("request")' : i \in Places("request") /\ published'[i] = published[i]
    BY <1>1, <2>2, <2>3, AddedKinds
  <2> QED BY <1>1, <2>1, <2>4, OnceKept
<1>5. CASE inbox # << >> /\ RelayEnvelope(Head(inbox))
  <2> DEFINE e == Head(inbox)
             x == PacketFor(e)
  <2>1. /\ published' = published /\ x \in SoundTelling /\ x.for = e.id
        /\ told' = told \/ told' = Append(told, x)
        /\ e.id \notin seen.openlink
        /\ ~emptied' => ~emptied /\ seen'.openlink = seen.openlink \cup {e.id}
    BY <1>5, RelayEnvelopeHistory
  <2> HIDE DEF e, x
  <2>2. \A i \in Places("request")' : i \in Places("request") /\ published'[i] = published[i]
    BY <2>1 DEF Places
  <2>3. \A t \in DOMAIN told' :
            \/ t \in DOMAIN told /\ told'[t] = told[t]
            \/ t = Len(told) + 1 /\ told'[t].for = e.id
    BY <1>1, <2>1, ToldPlaces
  <2> QED BY <1>1, <2>1, <2>2, <2>3, OnceKept
<1>6. CASE inbox # << >> /\ RelayAcceptance(Head(inbox))
  <2> DEFINE e == Head(inbox)
             x == PacketFor(e)
  <2>1. /\ e \in SoundEnvelope /\ x \in SoundTelling /\ x.for = e.id
        /\ e.id \notin seen.openlink
        /\ ~emptied' => ~emptied /\ seen'.openlink = seen.openlink \cup {e.id}
    BY <1>6, RelayAcceptanceTracker
  <2>2. PICK n \in 0..2 : Added(Requests(e), n) /\ (told' = told \/ told' = Append(told, x))
    BY <1>6, <2>1, RelayAcceptanceHistory
  <2>3. /\ Requests(e)[1] = Message("request", e.pair, e.id)
        /\ Requests(e)[2] = Message("response", e.pair, e.id)
    BY <2>1, RequestsSound
  <2> HIDE DEF e, x
  <2>4. ASSUME NEW i \in Places("request")'
        PROVE  \/ i \in Places("request") /\ published'[i] = published[i]
               \/ i = Len(published) + 1 /\ published'[i].for = e.id
    <3>1. i \in DOMAIN published' /\ published'[i].kind = "request"
      BY DEF Places
    <3>2. CASE i \in DOMAIN published /\ published'[i] = published[i]
      BY <3>1, <3>2 DEF Places
    <3>3. CASE \E m \in 1..n : i = Len(published) + m /\ published'[i] = Requests(e)[m]
      <4>1. PICK m \in 1..n : i = Len(published) + m /\ published'[i] = Requests(e)[m]
        BY <3>3
      <4>2. m \in {1, 2}
        OBVIOUS
      <4>3. m # 2
        BY <2>3, <3>1, <4>1 DEF Message
      <4> QED BY <2>3, <4>1, <4>2, <4>3 DEF Message
    <3> QED BY <1>1, <2>2, <3>1, <3>2, <3>3, AddedPlaces
  <2>5. \A t \in DOMAIN told' :
            \/ t \in DOMAIN told /\ told'[t] = told[t]
            \/ t = Len(told) + 1 /\ told'[t].for = e.id
    BY <1>1, <2>1, <2>2, ToldPlaces
  <2> QED BY <1>1, <2>1, <2>4, <2>5, OnceKept
<1> QED BY <1>2, <1>3, <1>4, <1>5, <1>6, QuietSteps

(* No envelope makes a second connection or is told twice while the set of *)
(* seen envelopes was not emptied: what is relayed was remembered first,   *)
(* and stays remembered.                                                   *)
THEOREM AlwaysRelayedOnce == Spec => []RelayedOnce
<1>1. Init => DataInv /\ OnceInv
  BY InitData, InitOnce
<1>2. DataInv /\ OnceInv /\ [Next]_vars => (DataInv /\ OnceInv)'
  BY StepData, StepOnce
<1>3. OnceInv => RelayedOnce
  BY DEF OnceInv
<1> QED BY <1>1, <1>2, <1>3, PTL DEF Spec

-----------------------------------------------------------------------------
(* MINs are used again last. *)

(* The texts of the pair of place i from there up to j.                    *)
Between(i, j) ==
    {n \in Places("text") : i < n /\ n <= j /\ published[n].pair = published[i].pair}

NumbersInv == CountInv /\ MinsReusedLast

LEMMA PlacesFinite ==
    ASSUME NEW n \in Nat, NEW S, S \subseteq 1..n
    PROVE  IsFiniteSet(S) /\ Cardinality(S) \in Nat
<1>1. IsFiniteSet(1..n)
  BY FS_Interval
<1> QED BY <1>1, FS_Subset, FS_CardinalityType

LEMMA SinceFinite ==
    ASSUME HistoryInv
    PROVE  \A i : /\ IsFiniteSet(Since(i)) /\ Cardinality(Since(i)) \in Nat
                  /\ \A j : Cardinality(Between(i, j)) \in Nat
<1>1. Len(published) \in Nat /\ Places("text") \subseteq 1..Len(published)
  BY LengthsAreNat DEF Places
<1>2. \A i : Since(i) \subseteq Places("text") /\ \A j : Between(i, j) \subseteq Places("text")
  BY DEF Since, Between
<1> QED BY <1>1, <1>2, PlacesFinite

LEMMA SinceFiniteNext ==
    ASSUME HistoryInv'
    PROVE  \A i : Cardinality(Since(i)') \in Nat
<1>1. Len(published') \in Nat /\ Places("text")' \subseteq 1..Len(published')
  BY LenProperties DEF Places, HistoryInv
<1>2. \A i : Since(i)' \subseteq Places("text")'
  BY DEF Since
<1> QED BY <1>1, <1>2, PlacesFinite

(* One advance takes the distance one further, or back to 0.               *)
LEMMA DistanceAdvances ==
    ASSUME TrackerInv, NEW k \in Pair, NEW min \in MIN
    PROVE  /\ Distance(min, counters[k]) \in Nat
           /\ Distance(min, NextMin(k)) <= Distance(min, counters[k]) + 1
           /\ Distance(NextMin(k), counters[k]) = MaxMin - 1
           /\ Distance(NextMin(k), NextMin(k)) = 0
<1>1. /\ counters[k] \in 0..MaxMin /\ MaxMin \in Nat \ {0} /\ min \in 1..MaxMin
      /\ NextMin(k) = IF counters[k] = MaxMin THEN 1 ELSE counters[k] + 1
  BY NextMinSteps, NumbersAssumption DEF TrackerInv, MIN
<1>2. CASE counters[k] = MaxMin
  BY <1>1, <1>2 DEF Distance
<1>3. CASE counters[k] # MaxMin
  BY <1>1, <1>3 DEF Distance
<1> QED BY <1>2, <1>3

LEMMA InitNumbers == Init => NumbersInv
BY DEF Init, NumbersInv, CountInv, MinsReusedLast, Places

(* Without a new text nothing changes but that requests may have failed.   *)
LEMMA NumbersKept ==
    ASSUME DataInv, DataInv', NumbersInv, faults' >= faults, counters' = counters, Grows,
           \A i \in Places("text")' : i \in Places("text") /\ published'[i] = published[i]
    PROVE  NumbersInv'
<1>1. HistoryInv /\ faults \in Nat /\ faults' \in Nat /\ HistoryInv'
  BY NumbersAssumption DEF DataInv, HistoryInv
<1>2. Places("text")' = Places("text")
  BY <1>1, LengthsAreNat DEF Places, Grows
<1>3. \A i \in Places("text") : published'[i] = published[i]
  BY <1>2
<1>4. ASSUME NEW i \in Places("text")
      PROVE  Since(i)' = Since(i) /\ \A j : Between(i, j)' = Between(i, j)
  BY <1>2, <1>3, <1>4 DEF Since, Between
<1>5. ASSUME NEW i \in Places("text")'
      PROVE  (Cardinality(Since(i)) + faults
                >= Distance(published[i].min, counters[published[i].pair]))'
  <2>1. Cardinality(Since(i)) \in Nat
    BY <1>1, SinceFinite
  <2>2. /\ published[i].min \in MIN /\ published[i].pair \in Pair
        /\ published[i] = published'[i]
    <3>1. published[i] \in SoundPublication /\ published[i].kind = "text"
      BY <1>1, <1>2, ElementOfSeq DEF Places, HistoryInv
    <3> QED BY <1>2, <1>3, <3>1 DEF SoundPublication, Publication
  <2>3. Distance(published[i].min, counters[published[i].pair]) \in Nat
    BY <2>2, DistanceAdvances DEF DataInv
  <2>4. Distance(published[i].min, counters[published[i].pair])'
          = Distance(published[i].min, counters[published[i].pair])
    BY <2>2 DEF Distance
  <2>5. Cardinality(Since(i)) + faults
          >= Distance(published[i].min, counters[published[i].pair])
    BY <1>2 DEF NumbersInv, CountInv
  <2>6. Since(i)' = Since(i)
    BY <1>2, <1>4
  <2> QED BY <1>1, <2>1, <2>3, <2>4, <2>5, <2>6
<1>6. ASSUME NEW i \in Places("text")', NEW j \in Places("text")',
             i < j, published'[i].pair = published'[j].pair,
             published'[i].min = published'[j].min
      PROVE  (Cardinality(Between(i, j)) + faults >= MaxMin)'
  <2>1. Cardinality(Between(i, j)) + faults >= MaxMin
    BY <1>2, <1>3, <1>6 DEF NumbersInv, MinsReusedLast, Between
  <2>2. Between(i, j)' = Between(i, j)
    BY <1>2, <1>4
  <2>3. Cardinality(Between(i, j)) \in Nat
    BY <1>1, SinceFinite
  <2> QED BY <1>1, <2>1, <2>2, <2>3, NumbersAssumption
<1>7. CountInv'
  BY <1>5 DEF CountInv
<1>8. MinsReusedLast'
  BY <1>6 DEF MinsReusedLast, Between
<1> QED BY <1>7, <1>8 DEF NumbersInv

(* A text that is published or lost: one more advance of the counter of    *)
(* its pair, for one more text or one more failure.                        *)
LEMMA NumbersAdvance ==
    ASSUME DataInv, DataInv', NumbersInv,
           NEW m \in SoundPublication, m.kind = "text", m.pair \in Pair,
           m.min = NextMin(m.pair),
           counters' = [counters EXCEPT ![m.pair] = NextMin(m.pair)],
           NEW n \in 0..1, Added(<<m>>, n), (n = 1 /\ faults' = faults) \/ faults' = faults + 1
    PROVE  NumbersInv'
<1>0. PICK last : last = Len(published) + 1
  OBVIOUS
<1> DEFINE new == IF n = 1 THEN {last} ELSE {}
<1>1. /\ HistoryInv /\ HistoryInv' /\ TrackerInv /\ Grows
      /\ faults \in Nat /\ faults' \in Nat /\ faults' >= faults
  BY NumbersAssumption, AddedGrows DEF DataInv, HistoryInv
<1>2. /\ last \in Nat /\ DOMAIN published = 1..(last - 1)
      /\ DOMAIN published' = 1..(last - 1 + n)
      /\ \A i \in 1..(last - 1) : published'[i] = published[i]
      /\ n = 1 => published'[last] = m
  <2>1. /\ Len(published) \in Nat /\ DOMAIN published = 1..Len(published)
        /\ DOMAIN published' = 1..Len(published')
    BY <1>1, LengthsAreNat
  <2>2. n = 1 => published'[Len(published) + 1] = <<m>>[1]
    BY DEF Added
  <2> QED BY <1>0, <2>1, <2>2 DEF Added
<1>3. /\ Places("text")' = Places("text") \cup new
      /\ Places("text") \subseteq 1..(last - 1)
      /\ \A i \in Places("text") : published'[i] = published[i] /\ i < last
  <2>1. /\ Places("text") \subseteq 1..(last - 1)
        /\ \A i \in Places("text") : published'[i] = published[i] /\ i < last
    BY <1>2 DEF Places
  <2>2. CASE n = 1
    <3>1. DOMAIN published' = (DOMAIN published) \cup {last}
      <4>1. /\ DOMAIN published = 1..(last - 1) /\ DOMAIN published' = 1..(last - 1 + 1)
            /\ last \in Nat /\ last >= 1
        BY <1>0, <1>1, <1>2, <2>2, LengthsAreNat
      <4>2. last - 1 + 1 = last /\ \A i : i \in 1..last <=> i \in 1..(last - 1) \/ i = last
        BY <4>1
      <4>3. \A i : i \in DOMAIN published' <=> i \in DOMAIN published \/ i = last
        BY <4>1, <4>2
      <4> QED BY <4>3
    <3>3. published'[last].kind = "text"
      BY <1>2, <2>2
    <3>2. \A i \in DOMAIN published : published'[i] = published[i]
      BY <1>2
    <3> QED BY <2>1, <2>2, <3>1, <3>2, <3>3 DEF Places
  <2>3. CASE n # 1
    <3>1. DOMAIN published' = DOMAIN published
      BY <1>2, <2>3
    <3>2. \A i \in DOMAIN published : published'[i] = published[i]
      BY <1>2
    <3> QED BY <2>1, <2>3, <3>1, <3>2 DEF Places
  <2> QED BY <2>1, <2>2, <2>3
<1>4. ASSUME NEW i \in Places("text")
      PROVE  /\ Since(i)' = IF published[i].pair = m.pair THEN Since(i) \cup new ELSE Since(i)
             /\ \A j \in Places("text") : Between(i, j)' = Between(i, j)
             /\ n = 1 => Between(i, last)' = Since(i)'
             /\ last \notin Since(i)
  <2>1. Since(i)' = IF published[i].pair = m.pair THEN Since(i) \cup new ELSE Since(i)
    BY <1>2, <1>3 DEF Since
  <2>2. \A j \in Places("text") : Between(i, j)' = Between(i, j)
    BY <1>2, <1>3 DEF Between
  <2>3. n = 1 => Between(i, last)' = Since(i)'
    BY <1>2, <1>3 DEF Between, Since
  <2>4. last \notin Since(i)
    BY <1>2, <1>3 DEF Since
  <2> QED BY <2>1, <2>2, <2>3, <2>4
<1>5. ASSUME NEW i \in Places("text")
      PROVE  /\ published[i].min \in MIN /\ published[i].pair \in Pair
             /\ IsFiniteSet(Since(i)) /\ Cardinality(Since(i)) \in Nat
             /\ Cardinality(Since(i)) + faults
                  >= Distance(published[i].min, counters[published[i].pair])
             /\ published[i].pair = m.pair =>
                  Cardinality(Since(i)') + faults' >= Cardinality(Since(i)) + faults + 1
  <2>1. published[i] \in SoundPublication /\ published[i].kind = "text"
    BY <1>1, ElementOfSeq DEF Places, HistoryInv
  <2>2. IsFiniteSet(Since(i)) /\ Cardinality(Since(i)) \in Nat
    BY <1>1, SinceFinite
  <2>3. ASSUME published[i].pair = m.pair
        PROVE  Cardinality(Since(i)') + faults' >= Cardinality(Since(i)) + faults + 1
    <3>1. CASE n = 1
      <4>1. Since(i)' = Since(i) \cup {last} /\ last \notin Since(i)
        BY <1>4, <2>3, <3>1
      <4>2. Cardinality(Since(i)') = Cardinality(Since(i)) + 1
        BY <2>2, <4>1, FS_AddElement
      <4> QED BY <1>1, <2>2, <4>2
    <3>2. CASE n # 1
      <4>1. Since(i)' = Since(i)
        BY <1>4, <3>2
      <4> QED BY <1>1, <2>2, <3>2, <4>1
    <3> QED BY <3>1, <3>2
  <2>4. Cardinality(Since(i)) + faults
          >= Distance(published[i].min, counters[published[i].pair])
    BY DEF NumbersInv, CountInv
  <2> QED BY <2>1, <2>2, <2>3, <2>4 DEF SoundPublication, Publication
<1>6. \A k \in Pair : counters'[k] = IF k = m.pair THEN NextMin(k) ELSE counters[k]
  BY <1>1 DEF TrackerInv
<1>7. ASSUME NEW i \in Places("text")'
      PROVE  (Cardinality(Since(i)) + faults
                >= Distance(published[i].min, counters[published[i].pair]))'
  <2>1. CASE i \in Places("text") /\ published[i].pair = m.pair
    <3> DEFINE d == Distance(published[i].min, counters[m.pair])
               e == Distance(published[i].min, NextMin(m.pair))
    <3>1. d \in Nat /\ e <= d + 1
      BY <1>1, <1>5, <2>1, DistanceAdvances
    <3>2. e \in Int
      BY <1>1, <1>5, <2>1, NextMinSteps, NumbersAssumption DEF Distance, MIN, TrackerInv
    <3>3. Distance(published[i].min, counters[published[i].pair])' = e
      BY <1>3, <1>6, <2>1 DEF Distance
    <3>4. Cardinality(Since(i)) + faults >= d /\ Cardinality(Since(i)) \in Nat
          /\ Cardinality(Since(i)') + faults' >= Cardinality(Since(i)) + faults + 1
      BY <1>5, <2>1
    <3>5. Cardinality(Since(i)') \in Nat
      BY <1>1, SinceFiniteNext
    <3> HIDE DEF d, e
    <3> QED BY <1>1, <3>1, <3>2, <3>3, <3>4, <3>5
  <2>2. CASE i \in Places("text") /\ published[i].pair # m.pair
    <3>1. Since(i)' = Since(i) /\ published'[i] = published[i]
      BY <1>3, <1>4, <2>2
    <3>2. counters'[published[i].pair] = counters[published[i].pair]
      BY <1>5, <1>6, <2>2
    <3>3. Distance(published[i].min, counters[published[i].pair])'
            = Distance(published[i].min, counters[published[i].pair])
      BY <3>1, <3>2 DEF Distance
    <3>4. Distance(published[i].min, counters[published[i].pair]) \in Nat
      BY <1>1, <1>5, <2>2, DistanceAdvances
    <3> QED BY <1>1, <1>5, <2>2, <3>1, <3>3, <3>4
  <2>3. CASE i \notin Places("text")
    <3>1. i = last /\ n = 1 /\ published'[i] = m
      BY <1>2, <1>3, <2>3
    <3>2. counters'[m.pair] = NextMin(m.pair)
      BY <1>6
    <3>3. Distance(published[i].min, counters[published[i].pair])' = 0
      BY <1>1, <3>1, <3>2, DistanceAdvances, NextMinSteps DEF Distance, TrackerInv
    <3>4. Cardinality(Since(i)') \in Nat
      BY <1>1, SinceFiniteNext
    <3> QED BY <1>1, <3>3, <3>4
  <2> QED BY <2>1, <2>2, <2>3
<1>8. ASSUME NEW i \in Places("text")', NEW j \in Places("text")',
             i < j, published'[i].pair = published'[j].pair,
             published'[i].min = published'[j].min
      PROVE  (Cardinality(Between(i, j)) + faults >= MaxMin)'
  <2>1. i \in Places("text")
    BY <1>2, <1>3, <1>8
  <2>2. CASE j \in Places("text")
    <3>1. Cardinality(Between(i, j)) + faults >= MaxMin
      BY <1>3, <1>8, <2>1, <2>2 DEF NumbersInv, MinsReusedLast, Between
    <3>2. Between(i, j)' = Between(i, j)
      BY <1>4, <2>1, <2>2
    <3>3. Cardinality(Between(i, j)) \in Nat
      BY <1>1, SinceFinite
    <3> QED BY <1>1, <3>1, <3>2, <3>3, NumbersAssumption
  <2>3. CASE j \notin Places("text")
    <3>1. j = last /\ n = 1 /\ published'[j] = m
      BY <1>2, <1>3, <2>3
    <3>2. published[i].pair = m.pair /\ published[i].min = NextMin(m.pair)
      BY <1>3, <1>8, <2>1, <3>1
    <3>3. Cardinality(Since(i)) + faults >= MaxMin - 1
      <4>1. Distance(NextMin(m.pair), counters[m.pair]) = MaxMin - 1
        BY <1>1, NextMinSteps, DistanceAdvances DEF TrackerInv
      <4> QED BY <1>5, <2>1, <3>2, <4>1
    <3>4. Cardinality(Since(i)') + faults' >= Cardinality(Since(i)) + faults + 1
      BY <1>5, <2>1, <3>2
    <3>5. Between(i, j)' = Since(i)'
      BY <1>4, <2>1, <3>1
    <3>6. Cardinality(Since(i)') \in Nat /\ Cardinality(Since(i)) \in Nat
      BY <1>1, <1>5, <2>1, SinceFiniteNext
    <3> QED BY <1>1, <3>3, <3>4, <3>5, <3>6, NumbersAssumption
  <2> QED BY <2>2, <2>3
<1>9. CountInv'
  BY <1>7 DEF CountInv
<1>10. MinsReusedLast'
  BY <1>8 DEF MinsReusedLast, Between
<1> QED BY <1>9, <1>10 DEF NumbersInv

LEMMA StepNumbers == DataInv /\ DataInv' /\ NumbersInv /\ [Next]_vars => NumbersInv'
<1> SUFFICES ASSUME DataInv, DataInv', NumbersInv, [Next]_vars PROVE NumbersInv'
  OBVIOUS
<1>1. HistoryInv /\ HistoryInv'
  BY DEF DataInv
<1>2. ASSUME published' = published
      PROVE  Grows /\ \A i \in Places("text")' : i \in Places("text") /\ published'[i] = published[i]
  BY <1>1, <1>2, LengthsAreNat DEF Places, Grows
<1>3. ASSUME NEW requests, NEW n \in Nat, Added(requests, n),
             \A m \in 1..n : requests[m].kind # "text"
      PROVE  Grows /\ \A i \in Places("text")' : i \in Places("text") /\ published'[i] = published[i]
  BY <1>1, <1>3, AddedGrows, AddedKinds
<1>4. CASE Quiet
  BY <1>2, <1>4, NumbersKept DEF Quiet
<1>5. CASE batch # << >> /\ RelayLogon(Head(batch))
  <2>1. PICK requests \in Seq(SoundPublication), n \in 0..2 :
             /\ Added(requests, n)
             /\ \A m \in 1..n : requests[m].kind \in {"status", "logon"}
             /\ counters' = counters /\ faults' >= faults
    BY <1>5, RelayLogonHistory
  <2>2. \A m \in 1..n : requests[m].kind # "text"
    BY <2>1
  <2> QED BY <1>3, <2>1, <2>2, NumbersKept
<1>6. CASE batch # << >> /\ RelayPacket(Head(batch))
  <2> DEFINE m == TextOf(Head(batch))
  <2>1. /\ m \in SoundPublication /\ m.kind = "text"
        /\ m.pair \in Pair /\ m.min = NextMin(m.pair)
        /\ counters' = [counters EXCEPT ![m.pair] = NextMin(m.pair)]
        /\ \E n \in 0..1 : Added(<<m>>, n)
              /\ ((n = 1 /\ faults' = faults) \/ faults' = faults + 1)
    BY <1>6, RelayPacketHistory
  <2> HIDE DEF m
  <2> QED BY <2>1, NumbersAdvance
<1>7. CASE inbox # << >> /\ RelayEnvelope(Head(inbox))
  <2>1. published' = published /\ counters' = counters /\ faults' >= faults
    BY <1>7, RelayEnvelopeHistory
  <2> QED BY <1>2, <2>1, NumbersKept
<1>8. CASE inbox # << >> /\ RelayAcceptance(Head(inbox))
  <2> DEFINE e == Head(inbox)
  <2>1. e \in SoundEnvelope /\ counters' = counters
    BY <1>8, RelayAcceptanceTracker
  <2>2. PICK n \in 0..2 : Added(Requests(e), n) /\ faults' >= faults
    BY <1>8, <2>1, RelayAcceptanceHistory
  <2>3. /\ Requests(e)[1] = Message("request", e.pair, e.id)
        /\ Requests(e)[2] = Message("response", e.pair, e.id)
    BY <2>1, RequestsSound
  <2> HIDE DEF e
  <2>4. \A m \in 1..n : Requests(e)[m].kind # "text"
    <3> SUFFICES ASSUME NEW m \in 1..n PROVE Requests(e)[m].kind # "text"
      OBVIOUS
    <3>1. m \in {1, 2}
      OBVIOUS
    <3> QED BY <2>3, <3>1 DEF Message
  <2> QED BY <1>3, <2>1, <2>2, <2>4, NumbersKept
<1> QED BY <1>4, <1>5, <1>6, <1>7, <1>8, QuietSteps

(* Two texts of a pair share a MIN only when all MINs were used between    *)
(* them, each by a text or by one that was lost: a counter gets back to a  *)
(* MIN only by going round, and goes on only for a text or a failure.      *)
THEOREM MinsAlwaysReusedLast == Spec => []MinsReusedLast
<1>1. Init => DataInv /\ NumbersInv
  BY InitData, InitNumbers
<1>2. DataInv /\ NumbersInv /\ [Next]_vars => (DataInv /\ NumbersInv)'
  BY StepData, StepNumbers
<1>3. NumbersInv => MinsReusedLast
  BY DEF NumbersInv
<1> QED BY <1>1, <1>2, <1>3, PTL DEF Spec
=============================================================================
