---------------------------- MODULE MCOpenLinkServer ----------------------------
(***************************************************************************)
(* OpenLinkServer on small instances: one aircraft and one or two stations, *)
(* each a client with a callsign of its own.                               *)
(***************************************************************************)
EXTENDS OpenLinkServerProperties, TLC

CONSTANTS AFR1, LFPG, EGLL, A1, N1, N2, N3

Plane == [callsign |-> AFR1, address |-> A1]

With(stations) ==
    {[aircraft |-> Plane, source |-> AFR1, destination |-> s] : s \in stations}
    \cup
    {[aircraft |-> Plane, source |-> s, destination |-> AFR1] : s \in stations}

RoutingOfOne == With({LFPG})
RoutingOfTwo == With({LFPG, EGLL})
                  \cup {[aircraft |-> Plane, source |-> LFPG, destination |-> EGLL]}

LicenceOfOne == (N1 :> {AFR1}) @@ (N2 :> {LFPG})
LicenceOfTwo == LicenceOfOne @@ (N3 :> {EGLL})

Upper == (AFR1 :> AFR1) @@ (LFPG :> LFPG) @@ (EGLL :> EGLL)
UpperOfOne == (AFR1 :> AFR1) @@ (LFPG :> LFPG)

ASSUME ClientsAssumption == OwnCallsigns

UM160(f) == [id |-> "UM160", facility |-> f]
UM161    == [id |-> "UM161", facility |-> None]

(* A bound on the search: once there is a session, its aircraft stays and   *)
(* at most one station at a time is away (not there, not yet back online,  *)
(* or marked offline).                                                     *)
Away == {i \in StationId : i \notin joined \/ ~R!IsOnline(i)}

OneAway == sessions[A1] = None \/ (N1 \notin Away /\ Cardinality(Away) <= 1)

EndService == {<<UM161>>}
Handover   == {<<UM160(EGLL)>>, <<UM161>>}
=============================================================================
