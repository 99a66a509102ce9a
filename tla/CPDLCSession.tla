------------------------------ MODULE CPDLCSession ------------------------------
(***************************************************************************)
(* The per-aircraft CPDLC session of openlink-server (acars.rs): its data  *)
(* and the pure transition functions of CPDLCConnection and CPDLCSession.  *)
(* A session holds at most two connections, the active one (the current    *)
(* data authority) and the inactive one, and an optional next data         *)
(* authority.  Every function here takes a session value and returns the   *)
(* session after the call; nothing here is stored or sent.                 *)
(*                                                                         *)
(* A ground station is known by its callsign only: the code always gives   *)
(* it an empty ACARS address and compares callsigns.                       *)
(***************************************************************************)

CONSTANTS
    Callsign,   \* ACARS callsigns, of aircraft and of ground stations
    Address,    \* ACARS addresses of aircraft; the key of a session
    None        \* an absent Option

(* CPDLCConnection, CPDLCSession and AcarsRoutingEndpoint as records.      *)
Endpoint == [callsign : Callsign, address : Address]

Connection == [station : Callsign, logon : BOOLEAN, connection : BOOLEAN]

Session == [aircraft : Endpoint,
            active   : Connection \cup {None},
            inactive : Connection \cup {None},
            nda      : Callsign \cup {None}]

(* An absent value is none of the values it stands in for.                 *)
ASSUME NoneAssumption ==
    /\ None \notin Callsign
    /\ None \notin Address
    /\ None \notin Connection
    /\ None \notin Session

-----------------------------------------------------------------------------
(* CPDLCConnection *)

NewConnection(station) ==
    [station |-> station, logon |-> FALSE, connection |-> FALSE]

(* CPDLCConnection::logon *)
Logon(conn) == [conn EXCEPT !.logon = TRUE]

(* CPDLCConnection::connect on a connection that is logged on; without a   *)
(* logon the call is an error (see ConnectionAcceptedErr).                 *)
Connect(conn) == [conn EXCEPT !.connection = TRUE]

ReadyExchange(conn) == conn.logon /\ conn.connection

Holds(slot, station) == slot # None /\ slot.station = station

-----------------------------------------------------------------------------
(* CPDLCSession *)

(* The station sits in one of the two slots.                               *)
InSlot(s, station) == Holds(s.active, station) \/ Holds(s.inactive, station)

FiledByCallsign(aircraft) ==   \* variant: only the callsign is kept
    [aircraft |-> aircraft.callsign, active |-> None, inactive |-> None, nda |-> None]

NewSession(aircraft) ==
    [aircraft |-> aircraft, active |-> None, inactive |-> None, nda |-> None]

DisplacingEnter(s, conn) ==   \* variant: an unconnected active one gives way
    IF s.active = None \/ ~s.active.connection THEN [s EXCEPT !.active = conn]
                                               ELSE [s EXCEPT !.inactive = conn]

(* A new connection goes to the active slot if that is free, and otherwise *)
(* replaces whatever the inactive slot holds.                              *)
Enter(s, conn) ==
    IF s.active = None THEN [s EXCEPT !.active = conn]
                       ELSE [s EXCEPT !.inactive = conn]

LogonRequest(s, station) == Enter(s, NewConnection(station))

LogonAccepted(s, station) ==
    CASE Holds(s.active, station) -> [s EXCEPT !.active = Logon(s.active)]
      [] ~Holds(s.active, station) /\ Holds(s.inactive, station)
           -> [s EXCEPT !.inactive = Logon(s.inactive)]
      [] OTHER -> s

UncheckedConnectionRequest(s, station) ==   \* variant: anyone is let in
    IF InSlot(s, station) THEN s ELSE Enter(s, Logon(NewConnection(station)))

(* A station already in a slot changes nothing; the designated next data   *)
(* authority enters as logged on; anyone else is ignored.                  *)
ConnectionRequest(s, station) ==
    IF ~InSlot(s, station) /\ s.nda = station
    THEN Enter(s, Logon(NewConnection(station)))
    ELSE s

ConnectionAccepted(s, station) ==
    CASE Holds(s.active, station) -> [s EXCEPT !.active = Connect(s.active)]
      [] ~Holds(s.active, station) /\ Holds(s.inactive, station)
           -> [s EXCEPT !.inactive = Connect(s.inactive)]
      [] OTHER -> s

(* The Err of connection_accepted: the slot that matches is not logged on. *)
ConnectionAcceptedErr(s, station) ==
    \/ Holds(s.active, station) /\ ~s.active.logon
    \/ ~Holds(s.active, station) /\ Holds(s.inactive, station) /\ ~s.inactive.logon

NextDataAuthority(s, station) == [s EXCEPT !.nda = station]

UnpromotingTermination(s, station) ==   \* variant: nobody is promoted
    CASE Holds(s.active, station) -> [s EXCEPT !.active = None]
      [] ~Holds(s.active, station) /\ Holds(s.inactive, station)
           -> [s EXCEPT !.inactive = None]
      [] OTHER -> s

(* Ending the active connection promotes the inactive one.                 *)
TerminationRequest(s, station) ==
    CASE Holds(s.active, station)
           -> [s EXCEPT !.active = s.inactive, !.inactive = None]
      [] ~Holds(s.active, station) /\ Holds(s.inactive, station)
           -> [s EXCEPT !.inactive = None]
      [] OTHER -> s

(* The test of list_sessions_for_callsign.                                 *)
RelevantTo(s, callsign) == s.aircraft.callsign = callsign \/ InSlot(s, callsign)

-----------------------------------------------------------------------------
(* What clients are shown: CpdlcConnectionView and CpdlcSessionView.       *)

Phase(conn) ==
    CASE conn.connection -> "Connected"
      [] ~conn.connection /\ conn.logon -> "LoggedOn"
      [] OTHER -> "LogonPending"

ToView(conn, peer) == [peer |-> peer, phase |-> Phase(conn)]

ToAircraftView(s) ==
    [aircraft |-> s.aircraft,
     active   |-> IF s.active = None THEN None ELSE ToView(s.active, s.active.station),
     inactive |-> IF s.inactive = None THEN None ELSE ToView(s.inactive, s.inactive.station),
     nda      |-> s.nda]

(* A station sees only its own connections, with the aircraft as the peer. *)
ToStationView(s, station) ==
    [aircraft |-> s.aircraft,
     active   |-> IF Holds(s.active, station)
                  THEN ToView(s.active, s.aircraft.callsign) ELSE None,
     inactive |-> IF Holds(s.inactive, station)
                  THEN ToView(s.inactive, s.aircraft.callsign) ELSE None,
     nda      |-> s.nda]

View(s, callsign) ==
    IF s.aircraft.callsign = callsign THEN ToAircraftView(s)
                                      ELSE ToStationView(s, callsign)
=============================================================================
