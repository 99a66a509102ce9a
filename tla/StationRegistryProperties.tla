----------------------- MODULE StationRegistryProperties -----------------------
(***************************************************************************)
(* What the station registry guarantees to those who route by callsign.    *)
(***************************************************************************)
EXTENDS StationRegistry

(* No other station uses the callsign that station i has registered.       *)
Private(i) ==
    \A j \in StationId \ {i} : \A c \in Licence[j] : IndexKey[c] # KeyOf(i)

(* As long as no write has failed, what the index finds is an online       *)
(* station that uses the callsign: across changes of callsign, of its      *)
(* spelling, several stations with one callsign, and leases that run out.  *)
IndexSound ==
    faults = 0 =>
        \A k \in Key :
            index[k] # None => IsOnline(index[k]) /\ KeyOf(index[k]) = k

(* As long as no write has failed, an online station whose callsign no     *)
(* other station uses is found under it, in whatever spelling, also when   *)
(* its other callsigns are shared.                                         *)
IndexComplete ==
    faults = 0 =>
        \A i \in StationId : IsOnline(i) /\ Private(i) => index[KeyOf(i)] = i

(* A station that stops renewing its lease is marked offline, unless it is *)
(* heard of again, whatever writes fail on the way.                        *)
LapsedGoesOffline ==
    \A i \in StationId : Stale(i) ~> (~IsOnline(i) \/ age[i] = 0)
=============================================================================
