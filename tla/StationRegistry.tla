---------------------------- MODULE StationRegistry ----------------------------
(***************************************************************************)
(* StationRegistry of openlink-server (station_registry.rs): a KV bucket   *)
(* of station entries, a second bucket that indexes online stations by     *)
(* callsign, and the lease that a station renews with every ONLINE.        *)
(*                                                                         *)
(* update_status makes up to three writes: it drops the index key of the   *)
(* callsign the station had before, writes the entry, and writes or drops  *)
(* the index key of the callsign it has now.  Only the server of the       *)
(* network reads the buckets and it does one thing at a time, so a call is *)
(* one step; a failed write or a crash makes the step stop short, and      *)
(* the errors of the two deletes are ignored.  The fault budget bounds how *)
(* often that happens.                                                     *)
(*                                                                         *)
(* The clients of the SDK use their network address as their station id,   *)
(* so an entry's network address is the id it is filed under.              *)
(***************************************************************************)
EXTENDS Integers, FiniteSets

CONSTANTS
    StationId,   \* station ids, which are network addresses
    Callsign,    \* ACARS callsigns as clients spell them
    Key,         \* keys of the index: upper-case callsigns
    IndexKey,    \* callsign -> key, callsign_index_key
    Licence,     \* station id -> the callsigns it comes online with
    Ttl,         \* lease_ttl_seconds, in ticks of the clock
    MaxFaults,   \* bound on failed writes and crashes
    None         \* an absent value

ASSUME IndexKeyAssumption == IndexKey \in [Callsign -> Key]
ASSUME LicenceAssumption  == Licence \in [StationId -> SUBSET Callsign]
ASSUME TtlAssumption      == Ttl \in Nat
ASSUME FaultsAssumption   == MaxFaults \in Nat

(* StationEntry; its age is kept apart.                                    *)
Entry == [status : {"Online", "Offline"}, callsign : Callsign]

Sweep == [todo : SUBSET StationId, expired : SUBSET StationId]

ASSUME NoneAssumption ==
    /\ None \notin StationId
    /\ None \notin Entry
    /\ None \notin Sweep

VARIABLES
    registry,   \* the registry bucket: station id -> entry
    index,      \* the index bucket: key -> station id
    age,        \* station id -> ticks since last_updated, up to Ttl + 1
    sweep,      \* the expire_stale_online in progress, or None
    faults      \* how many faults have happened

vars == <<registry, index, age, sweep, faults>>

TypeOK ==
    /\ registry \in [StationId -> Entry \cup {None}]
    /\ index \in [Key -> StationId \cup {None}]
    /\ age \in [StationId -> 0..(Ttl + 1)]
    /\ sweep \in Sweep \cup {None}
    /\ faults \in 0..MaxFaults

Init ==
    /\ registry = [i \in StationId |-> None]
    /\ index = [k \in Key |-> None]
    /\ age = [i \in StationId |-> 0]
    /\ sweep = None
    /\ faults = 0

-----------------------------------------------------------------------------

IsOnline(i) == registry[i] # None /\ registry[i].status = "Online"

KeyOf(i) == IndexKey[registry[i].callsign]

(* lookup_callsign: the id it finds, or None.  The status of the entry is  *)
(* not looked at.                                                          *)
Lookup(callsign) ==
    LET i == index[IndexKey[callsign]]
    IN  IF i # None /\ registry[i] # None THEN i ELSE None

(* The writes of update_status that take effect.                           *)
Writes == [old : BOOLEAN, entry : BOOLEAN, new : BOOLEAN]

AllWritten == [old |-> TRUE, entry |-> TRUE, new |-> TRUE]

(* How a call can stop short: the delete of the old key may fail or not,   *)
(* and nothing is written to the index after a failed write of the entry.  *)
CutShort == {w \in Writes : w # AllWritten /\ (w.new => w.entry)}

KeepOld(i, callsign, w) == index   \* variant: the old key is never dropped

(* The index after the first delete, made when the callsign has changed.   *)
DropOld(i, callsign, w) ==
    IF w.old /\ registry[i] # None /\ registry[i].callsign # callsign
    THEN [index EXCEPT ![KeyOf(i)] = None]
    ELSE index

CallsignIndexed(i, status, callsign, w) ==   \* variant: indexes the callsign
    /\ registry' = IF w.entry
                   THEN [registry EXCEPT ![i] = [status |-> status, callsign |-> callsign]]
                   ELSE registry
    /\ age' = IF w.entry THEN [age EXCEPT ![i] = 0] ELSE age
    /\ index' = [DropOld(i, callsign, w) EXCEPT
                   ![IndexKey[callsign]] = IF status = "Online" THEN callsign ELSE None]

DropLast(i, status, callsign, w) ==   \* variant: the old key is dropped last
    /\ registry' = IF w.entry
                   THEN [registry EXCEPT ![i] = [status |-> status, callsign |-> callsign]]
                   ELSE registry
    /\ age' = IF w.entry THEN [age EXCEPT ![i] = 0] ELSE age
    /\ index' = [k \in Key |->
         IF registry[i] # None /\ registry[i].callsign # callsign /\ k = KeyOf(i)
         THEN None
         ELSE IF k # IndexKey[callsign] THEN index[k]
         ELSE IF status = "Online" THEN i ELSE None]

(* update_status, of which the writes w take effect.                       *)
UpdateStatus(i, status, callsign, w) ==
    /\ registry' = IF w.entry
                   THEN [registry EXCEPT ![i] = [status |-> status, callsign |-> callsign]]
                   ELSE registry
    /\ age' = IF w.entry THEN [age EXCEPT ![i] = 0] ELSE age
    /\ index' = IF w.new
                THEN [DropOld(i, callsign, w) EXCEPT
                        ![IndexKey[callsign]] = IF status = "Online" THEN i ELSE None]
                ELSE DropOld(i, callsign, w)

(* Whether update_status returns Ok: it does not see failed deletes.       *)
ReturnsOk(status, w) == w.entry /\ (status = "Online" => w.new)

Faulty(w) ==
    /\ w \in CutShort
    /\ faults < MaxFaults
    /\ faults' = faults + 1

-----------------------------------------------------------------------------

(* A StationStatus message, ONLINE (the first one or a heartbeat) or       *)
(* OFFLINE.                                                                *)
StationStatus(i, status, callsign) ==
    /\ sweep = None
    /\ UpdateStatus(i, status, callsign, AllWritten)
    /\ UNCHANGED <<sweep, faults>>

StationStatusFault(i, status, callsign) ==
    /\ sweep = None
    /\ \E w \in CutShort : Faulty(w) /\ UpdateStatus(i, status, callsign, w)
    /\ UNCHANGED sweep

(* The lease of i has run out: strictly more than the TTL has passed.      *)
Stale(i) == IsOnline(i) /\ age[i] > Ttl

SweepOffline ==   \* variant: the status is tested the wrong way round
    /\ sweep = None
    /\ sweep' = [todo |-> {i \in StationId : registry[i] # None /\ ~IsOnline(i)},
                 expired |-> {}]
    /\ UNCHANGED <<registry, index, age, faults>>

(* expire_stale_online: the list of entries and the time are read once.    *)
SweepStart ==
    /\ sweep = None
    /\ sweep' = [todo |-> {i \in StationId : Stale(i)}, expired |-> {}]
    /\ UNCHANGED <<registry, index, age, faults>>

SweepStation(i) ==
    /\ sweep # None
    /\ i \in sweep.todo
    /\ UpdateStatus(i, "Offline", registry[i].callsign, AllWritten)
    /\ sweep' = [todo |-> sweep.todo \ {i}, expired |-> sweep.expired \cup {i}]
    /\ UNCHANGED faults

(* A failed delete goes unnoticed; any other error, or a crash, ends the   *)
(* sweep and drops the list of what has expired so far.                    *)
SweepFault(i) ==
    /\ sweep # None
    /\ i \in sweep.todo
    /\ \E w \in CutShort :
         /\ Faulty(w)
         /\ UpdateStatus(i, "Offline", registry[i].callsign, w)
         /\ \/ sweep' = None
            \/ /\ ReturnsOk("Offline", w)
               /\ sweep' = [todo |-> sweep.todo \ {i},
                            expired |-> sweep.expired \cup {i}]

SweepEnd ==
    /\ sweep # None
    /\ sweep.todo = {}
    /\ sweep' = None
    /\ UNCHANGED <<registry, index, age, faults>>

(* Time passes.  The sweep compares with the time at which it started, and *)
(* a tick during a call is one after it.                                   *)
Tick ==
    /\ sweep = None
    /\ \E i \in StationId : IsOnline(i) /\ age[i] <= Ttl
    /\ age' = [i \in StationId |-> IF IsOnline(i) /\ age[i] <= Ttl
                                   THEN age[i] + 1 ELSE age[i]]
    /\ UNCHANGED <<registry, index, sweep, faults>>

Next ==
    \/ \E i \in StationId : \E callsign \in Licence[i], status \in {"Online", "Offline"} :
         \/ StationStatus(i, status, callsign)
         \/ StationStatusFault(i, status, callsign)
    \/ SweepStart
    \/ \E i \in StationId : SweepStation(i) \/ SweepFault(i)
    \/ SweepEnd
    \/ Tick

Spec == Init /\ [][Next]_vars

(* The ticker of the message loop keeps firing and a sweep runs to its     *)
(* end; the clock does not stop.  Nothing is assumed of the stations.      *)
Fairness ==
    /\ WF_vars(SweepStart /\ \E i \in StationId : Stale(i))
    /\ WF_vars(\E i \in StationId : SweepStation(i) \/ SweepFault(i))
    /\ WF_vars(SweepEnd)
    /\ WF_vars(Tick)

FairSpec == Spec /\ Fairness
=============================================================================
