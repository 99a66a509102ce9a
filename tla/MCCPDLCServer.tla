----------------------------- MODULE MCCPDLCServer -----------------------------
(***************************************************************************)
(* CPDLCServer on small instances: aircraft with their addresses, ground   *)
(* stations, and the routings the clients of the SDK produce between them. *)
(***************************************************************************)
EXTENDS CPDLCServerProperties

CONSTANTS AFR1, BAW2, A1, A2, LFPG, EGLL

(* One aircraft with two stations, or a second aircraft with one of them.  *)
OneAircraft  == {[callsign |-> AFR1, address |-> A1]}
TwoAircraft  == OneAircraft \cup {[callsign |-> BAW2, address |-> A2]}
Stations     == {LFPG, EGLL}

Between(fleet, ground) ==
    {[aircraft |-> p, source |-> p.callsign, destination |-> s] :
        p \in fleet, s \in ground}
    \cup
    {[aircraft |-> p, source |-> s, destination |-> p.callsign] :
        p \in fleet, s \in ground}

(* A logon forward travels from station to station.                        *)
Forwarding(fleet, ground) ==
    {r \in [aircraft : fleet, source : ground, destination : ground] :
        r.source # r.destination}

RoutingOfOne == Between(OneAircraft, Stations) \cup Forwarding(OneAircraft, Stations)
RoutingOfTwo == Between(OneAircraft, Stations) \cup Between(TwoAircraft, {LFPG})

UM160(f) == [id |-> "UM160", facility |-> f]
UM161    == [id |-> "UM161", facility |-> None]
Other    == [id |-> "Other", facility |-> None]

(* Handovers as the ground systems send them: end (after a UM160 without  *)
(* a facility), designate and end in one message, end twice.               *)
Bodies == {<<UM160(None), UM161>>, <<UM160(EGLL), Other, UM161>>, <<UM161, UM161>>}

(* Both ends of the range 1..63 and their neighbours outside it.           *)
Mins == {0, 1, 63, 64}
=============================================================================
