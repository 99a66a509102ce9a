------------------------- MODULE StationRegistryProofs -------------------------
(***************************************************************************)
(* Proofs about StationRegistry for any stations, callsigns, spellings,    *)
(* leases and fault budget: its type invariant, and that the callsign      *)
(* index is sound, and complete for callsigns that are not shared, for as  *)
(* long as no write has failed.                                            *)
(***************************************************************************)
EXTENDS StationRegistryProperties, TLAPS

(* Entries carry callsigns their stations may use.                         *)
EntriesLicensed ==
    \A i \in StationId : registry[i] # None => registry[i].callsign \in Licence[i]

(* A sweep works on stations that are online.                              *)
SweepFits ==
    sweep # None => \A i \in sweep.todo : IsOnline(i)

IInv ==
    /\ TypeOK
    /\ EntriesLicensed
    /\ SweepFits
    /\ IndexSound
    /\ IndexComplete

-----------------------------------------------------------------------------
(* update_status *)

LEMMA KeyType ==
    ASSUME NEW c \in Callsign
    PROVE  IndexKey[c] \in Key
BY IndexKeyAssumption

LEMMA DropOldType ==
    ASSUME TypeOK, NEW i \in StationId, NEW c \in Callsign, NEW w \in Writes
    PROVE  DropOld(i, c, w) \in [Key -> StationId \cup {None}]
BY KeyType DEF DropOld, KeyOf, TypeOK, Entry

LEMMA UpdateType ==
    ASSUME TypeOK, NEW i \in StationId, NEW status \in {"Online", "Offline"},
           NEW c \in Callsign, NEW w \in Writes, UpdateStatus(i, status, c, w)
    PROVE  /\ registry' \in [StationId -> Entry \cup {None}]
           /\ index' \in [Key -> StationId \cup {None}]
           /\ age' \in [StationId -> 0..(Ttl + 1)]
<1>1. registry' \in [StationId -> Entry \cup {None}]
  BY DEF UpdateStatus, TypeOK, Entry
<1>2. age' \in [StationId -> 0..(Ttl + 1)]
  BY TtlAssumption DEF UpdateStatus, TypeOK
<1>3. index' \in [Key -> StationId \cup {None}]
  BY DropOldType, KeyType DEF UpdateStatus
<1> QED BY <1>1, <1>2, <1>3

LEMMA UpdateLicensed ==
    ASSUME TypeOK, EntriesLicensed, NEW i \in StationId,
           NEW status \in {"Online", "Offline"}, NEW c \in Licence[i],
           NEW w \in Writes, UpdateStatus(i, status, c, w)
    PROVE  EntriesLicensed'
BY DEF UpdateStatus, TypeOK, EntriesLicensed

(* All writes took effect: the index is as sound as it was.                *)
LEMMA UpdateSound ==
    ASSUME TypeOK, NEW i \in StationId, NEW status \in {"Online", "Offline"},
           NEW c \in Callsign, UpdateStatus(i, status, c, AllWritten),
           \A k \in Key : index[k] # None => IsOnline(index[k]) /\ KeyOf(index[k]) = k
    PROVE  \A k \in Key : index'[k] # None =>
               /\ registry'[index'[k]] # None
               /\ registry'[index'[k]].status = "Online"
               /\ IndexKey[registry'[index'[k]].callsign] = k
<1> DEFINE key == IndexKey[c]
<1>1. /\ registry' = [registry EXCEPT ![i] = [status |-> status, callsign |-> c]]
      /\ index' = [DropOld(i, c, AllWritten) EXCEPT
                     ![key] = IF status = "Online" THEN i ELSE None]
  BY DEF UpdateStatus, AllWritten
<1>2. /\ DropOld(i, c, AllWritten) \in [Key -> StationId \cup {None}]
      /\ key \in Key
  BY DropOldType, KeyType DEF AllWritten, Writes
<1>3. [status |-> status, callsign |-> c] # None
  BY NoneAssumption DEF Entry
<1> SUFFICES ASSUME NEW k \in Key, index'[k] # None
             PROVE  /\ registry'[index'[k]] # None
                    /\ registry'[index'[k]].status = "Online"
                    /\ IndexKey[registry'[index'[k]].callsign] = k
  OBVIOUS
<1>4. CASE k = key
  BY <1>1, <1>2, <1>3, <1>4 DEF TypeOK
<1>5. CASE k # key
  <2>1. index'[k] = DropOld(i, c, AllWritten)[k]
    BY <1>1, <1>2, <1>5
  <2>2. /\ index'[k] = index[k]
        /\ registry[i] # None /\ registry[i].callsign # c => KeyOf(i) # k
    BY <2>1, KeyType DEF DropOld, AllWritten, TypeOK, KeyOf, Entry
  <2>3. /\ IsOnline(index[k])
        /\ KeyOf(index[k]) = k
        /\ index[k] \in StationId
    BY <2>2 DEF TypeOK
  <2>4. index[k] # i
    BY <1>5, <2>2, <2>3 DEF IsOnline, KeyOf
  <2> QED BY <1>1, <2>2, <2>3, <2>4 DEF IsOnline, KeyOf, TypeOK
<1> QED BY <1>4, <1>5

(* All writes took effect: a station that was found under a callsign of    *)
(* its own still is.                                                       *)
LEMMA UpdateComplete ==
    ASSUME TypeOK, EntriesLicensed, NEW i \in StationId,
           NEW status \in {"Online", "Offline"}, NEW c \in Licence[i],
           UpdateStatus(i, status, c, AllWritten),
           \A j \in StationId : IsOnline(j) /\ Private(j) => index[KeyOf(j)] = j,
           NEW j \in StationId,
           registry'[j] # None, registry'[j].status = "Online",
           \A k \in StationId \ {j} : \A d \in Licence[k] :
               IndexKey[d] # IndexKey[registry'[j].callsign]
    PROVE  index'[IndexKey[registry'[j].callsign]] = j
<1> DEFINE key == IndexKey[c]
<1>0. c \in Callsign
  BY LicenceAssumption
<1>1. /\ registry' = [registry EXCEPT ![i] = [status |-> status, callsign |-> c]]
      /\ index' = [DropOld(i, c, AllWritten) EXCEPT
                     ![key] = IF status = "Online" THEN i ELSE None]
  BY DEF UpdateStatus, AllWritten
<1>2. /\ DropOld(i, c, AllWritten) \in [Key -> StationId \cup {None}]
      /\ key \in Key
  BY <1>0, DropOldType, KeyType DEF AllWritten, Writes
<1>3. CASE j = i
  BY <1>1, <1>2, <1>3 DEF TypeOK
<1>4. CASE j # i
  <2>1. registry'[j] = registry[j] /\ IsOnline(j)
    BY <1>1, <1>4 DEF TypeOK, IsOnline
  <2>2. Private(j)
    BY <2>1 DEF Private, KeyOf
  <2>3. /\ registry[j].callsign \in Callsign
        /\ KeyOf(j) \in Key
        /\ index[KeyOf(j)] = j
    BY <2>1, <2>2, KeyType, LicenceAssumption DEF EntriesLicensed, IsOnline, KeyOf
  <2>4. KeyOf(j) # key
    BY <1>4, <2>2 DEF Private
  <2>5. registry[i] # None => KeyOf(i) # KeyOf(j)
    BY <1>4, <2>2 DEF Private, KeyOf, EntriesLicensed
  <2>6. DropOld(i, c, AllWritten)[KeyOf(j)] = index[KeyOf(j)]
    BY <2>3, <2>5 DEF DropOld, TypeOK
  <2> QED BY <1>1, <1>2, <2>1, <2>3, <2>4, <2>6 DEF KeyOf
<1> QED BY <1>3, <1>4

-----------------------------------------------------------------------------
(* The steps. *)

(* An update of which all writes took effect, with no fault counted.       *)
LEMMA UpdateGood ==
    ASSUME IInv, NEW i \in StationId, NEW status \in {"Online", "Offline"},
           NEW c \in Licence[i], UpdateStatus(i, status, c, AllWritten),
           UNCHANGED faults
    PROVE  /\ registry' \in [StationId -> Entry \cup {None}]
           /\ index' \in [Key -> StationId \cup {None}]
           /\ age' \in [StationId -> 0..(Ttl + 1)]
           /\ EntriesLicensed' /\ IndexSound' /\ IndexComplete'
<1>1. c \in Callsign /\ AllWritten \in Writes
  BY LicenceAssumption DEF AllWritten, Writes
<1>2. /\ registry' \in [StationId -> Entry \cup {None}]
      /\ index' \in [Key -> StationId \cup {None}]
      /\ age' \in [StationId -> 0..(Ttl + 1)]
  BY <1>1, UpdateType DEF IInv
<1>3. EntriesLicensed'
  BY <1>1, UpdateLicensed DEF IInv
<1>4. IndexSound'
  BY <1>1, UpdateSound DEF IInv, IndexSound, IsOnline, KeyOf
<1>5. IndexComplete'
  <2> SUFFICES ASSUME faults = 0, NEW j \in StationId,
                      registry'[j] # None, registry'[j].status = "Online",
                      \A k \in StationId \ {j} : \A d \in Licence[k] :
                          IndexKey[d] # IndexKey[registry'[j].callsign]
               PROVE  index'[IndexKey[registry'[j].callsign]] = j
    BY DEF IndexComplete, IsOnline, KeyOf, Private
  <2> QED BY UpdateComplete DEF IInv, IndexComplete
<1> QED BY <1>2, <1>3, <1>4, <1>5

(* Once a write has failed the index is no longer spoken of.               *)
LEMMA FaultGood ==
    ASSUME IInv, NEW i \in StationId, NEW status \in {"Online", "Offline"},
           NEW c \in Licence[i], NEW w \in CutShort, Faulty(w),
           UpdateStatus(i, status, c, w)
    PROVE  /\ registry' \in [StationId -> Entry \cup {None}]
           /\ index' \in [Key -> StationId \cup {None}]
           /\ age' \in [StationId -> 0..(Ttl + 1)]
           /\ faults' \in 0..MaxFaults
           /\ EntriesLicensed' /\ IndexSound' /\ IndexComplete'
<1>1. c \in Callsign /\ w \in Writes
  BY LicenceAssumption DEF CutShort
<1>2. /\ registry' \in [StationId -> Entry \cup {None}]
      /\ index' \in [Key -> StationId \cup {None}]
      /\ age' \in [StationId -> 0..(Ttl + 1)]
  BY <1>1, UpdateType DEF IInv
<1>3. faults' \in 0..MaxFaults /\ faults' # 0
  BY FaultsAssumption DEF Faulty, IInv, TypeOK
<1>4. EntriesLicensed'
  BY <1>1, UpdateLicensed DEF IInv
<1>5. IndexSound' /\ IndexComplete'
  BY <1>3 DEF IndexSound, IndexComplete
<1> QED BY <1>2, <1>3, <1>4, <1>5

LEMMA StatusGood ==
    ASSUME IInv, NEW i \in StationId, NEW c \in Licence[i],
           NEW status \in {"Online", "Offline"},
           StationStatus(i, status, c) \/ StationStatusFault(i, status, c)
    PROVE  IInv'
<1>1. CASE StationStatus(i, status, c)
  <2>1. /\ UpdateStatus(i, status, c, AllWritten)
        /\ UNCHANGED <<sweep, faults>> /\ sweep = None
    BY <1>1 DEF StationStatus
  <2> QED BY <2>1, UpdateGood DEF IInv, TypeOK, SweepFits
<1>2. CASE StationStatusFault(i, status, c)
  <2>1. PICK w \in CutShort : Faulty(w) /\ UpdateStatus(i, status, c, w)
    BY <1>2 DEF StationStatusFault
  <2>2. UNCHANGED sweep /\ sweep = None
    BY <1>2 DEF StationStatusFault
  <2> QED BY <2>1, <2>2, FaultGood DEF IInv, TypeOK, SweepFits
<1> QED BY <1>1, <1>2

(* Within a sweep: the other stations of the list stay online.             *)
LEMMA SweptCallsign ==
    ASSUME IInv, sweep # None, NEW i \in sweep.todo
    PROVE  /\ i \in StationId
           /\ sweep \in Sweep
           /\ registry[i].callsign \in Licence[i]
BY DEF IInv, TypeOK, Sweep, SweepFits, IsOnline, EntriesLicensed

LEMMA OthersOnline ==
    ASSUME TypeOK, SweepFits, sweep # None, NEW i \in sweep.todo,
           NEW w \in Writes, UpdateStatus(i, "Offline", registry[i].callsign, w)
    PROVE  \A j \in sweep.todo \ {i} :
               registry'[j] # None /\ registry'[j].status = "Online"
BY DEF TypeOK, Sweep, SweepFits, IsOnline, UpdateStatus

LEMMA SweepGood ==
    ASSUME IInv, NEW i \in StationId, SweepStation(i) \/ SweepFault(i)
    PROVE  IInv'
<1>1. sweep # None /\ i \in sweep.todo
  BY DEF SweepStation, SweepFault
<1>2. sweep \in Sweep /\ registry[i].callsign \in Licence[i]
  BY <1>1, SweptCallsign
<1>3. ASSUME sweep' = [todo |-> sweep.todo \ {i}, expired |-> sweep.expired \cup {i}],
             NEW w \in Writes, UpdateStatus(i, "Offline", registry[i].callsign, w)
      PROVE  sweep' \in Sweep /\ SweepFits'
  <2>1. sweep' \in Sweep
    BY <1>2, <1>3 DEF Sweep
  <2>2. SweepFits'
    BY <1>1, <1>3, OthersOnline DEF IInv, SweepFits, IsOnline
  <2> QED BY <2>1, <2>2
<1>4. CASE SweepStation(i)
  <2>1. /\ UpdateStatus(i, "Offline", registry[i].callsign, AllWritten)
        /\ UNCHANGED faults
        /\ sweep' = [todo |-> sweep.todo \ {i}, expired |-> sweep.expired \cup {i}]
    BY <1>4 DEF SweepStation
  <2>2. AllWritten \in Writes
    BY DEF AllWritten, Writes
  <2> QED BY <1>2, <1>3, <2>1, <2>2, UpdateGood DEF IInv, TypeOK
<1>5. CASE SweepFault(i)
  <2>1. PICK w \in CutShort :
          /\ Faulty(w)
          /\ UpdateStatus(i, "Offline", registry[i].callsign, w)
          /\ \/ sweep' = None
             \/ sweep' = [todo |-> sweep.todo \ {i}, expired |-> sweep.expired \cup {i}]
    BY <1>5 DEF SweepFault
  <2>2. w \in Writes
    BY DEF CutShort
  <2>3. sweep' \in Sweep \cup {None} /\ SweepFits'
    BY <1>3, <2>1, <2>2 DEF SweepFits
  <2> QED BY <1>2, <2>1, <2>3, FaultGood DEF IInv, TypeOK
<1> QED BY <1>4, <1>5

LEMMA OtherGood ==
    ASSUME IInv, SweepStart \/ SweepEnd \/ Tick \/ UNCHANGED vars
    PROVE  IInv'
<1>1. UNCHANGED <<registry, index, faults>>
  BY DEF SweepStart, SweepEnd, Tick, vars
<1>2. EntriesLicensed' /\ IndexSound' /\ IndexComplete'
  BY <1>1 DEF IInv, EntriesLicensed, IndexSound, IndexComplete, IsOnline, KeyOf, Private
<1>3. sweep' \in Sweep \cup {None} /\ SweepFits'
  BY <1>1 DEF SweepStart, SweepEnd, Tick, vars, IInv, TypeOK, Sweep, SweepFits,
              Stale, IsOnline
<1>4. age' \in [StationId -> 0..(Ttl + 1)]
  BY TtlAssumption DEF SweepStart, SweepEnd, Tick, vars, IInv, TypeOK
<1> QED BY <1>1, <1>2, <1>3, <1>4 DEF IInv, TypeOK

-----------------------------------------------------------------------------

LEMMA InitGood == Init => IInv
BY TtlAssumption, FaultsAssumption
   DEF Init, IInv, TypeOK, EntriesLicensed, SweepFits, IndexSound,
       IndexComplete, IsOnline

LEMMA NextGood == IInv /\ [Next]_vars => IInv'
<1> SUFFICES ASSUME IInv, [Next]_vars PROVE IInv'
  OBVIOUS
<1>1. ASSUME NEW i \in StationId, NEW c \in Licence[i],
             NEW status \in {"Online", "Offline"},
             StationStatus(i, status, c) \/ StationStatusFault(i, status, c)
      PROVE  IInv'
  BY <1>1, StatusGood
<1>2. ASSUME NEW i \in StationId, SweepStation(i) \/ SweepFault(i)
      PROVE  IInv'
  BY <1>2, SweepGood
<1>3. CASE SweepStart \/ SweepEnd \/ Tick \/ UNCHANGED vars
  BY <1>3, OtherGood
<1> QED BY <1>1, <1>2, <1>3 DEF Next

(* The buckets, the ages, the sweep and the fault count have their types.  *)
THEOREM TypeCorrect == Spec => []TypeOK
<1>1. IInv => TypeOK
  BY DEF IInv
<1> QED BY <1>1, InitGood, NextGood, PTL DEF Spec

(* Without failed writes, lookup_callsign only finds online stations that  *)
(* use the callsign it was asked for, however many stations share it.      *)
THEOREM IndexIsSound == Spec => []IndexSound
<1>1. IInv => IndexSound
  BY DEF IInv
<1> QED BY <1>1, InitGood, NextGood, PTL DEF Spec

(* Without failed writes, every online station whose callsign no other     *)
(* station uses is found under it.                                         *)
THEOREM IndexIsComplete == Spec => []IndexComplete
<1>1. IInv => IndexComplete
  BY DEF IInv
<1> QED BY <1>1, InitGood, NextGood, PTL DEF Spec
=============================================================================
