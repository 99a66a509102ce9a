------------------------- MODULE CPDLCServerProperties -------------------------
(***************************************************************************)
(* What the session store of CPDLCServer guarantees, and what the docs and *)
(* comments of the repository say of it.                                   *)
(***************************************************************************)
EXTENDS CPDLCServer

(* Every session the server holds: stored, or the draft of a call.         *)
SessionWellFormed(s) ==
    /\ s.active = None => s.inactive = None
    /\ s.active # None => (s.active.connection => s.active.logon)
    /\ s.inactive # None => (s.inactive.connection => s.inactive.logon)

(* A session is filed under its own aircraft's address, never has an       *)
(* inactive connection without an active one, and no connection is         *)
(* established without a logon: through logons, implicit logons of the     *)
(* next data authority, handovers, stations going offline, in the bucket   *)
(* and in the draft of an application message.                             *)
SlotsWellFormed ==
    /\ \A a \in Address :
         sessions[a] # None =>
            sessions[a].aircraft.address = a /\ SessionWellFormed(sessions[a])
    /\ call # None /\ call.kind = "application" => SessionWellFormed(call.draft)

(* The same connection, at most further on in its establishment.           *)
Advances(old, new) ==
    /\ new # None
    /\ new.station = old.station
    /\ old.logon => new.logon
    /\ old.connection => new.connection

(* From session s to session t the current data authority stays, or gives  *)
(* way to the inactive connection, or is gone together with a second       *)
(* connection of its own.                                                  *)
Succeeds(s, t) ==
    s.active # None =>
        \/ Advances(s.active, t.active)
        \/ t.active = s.inactive /\ t.inactive = None
        \/ t.active = None /\ Holds(s.inactive, s.active.station)

(* The current data authority only ever gives way to the station that was  *)
(* waiting in the inactive slot, or to nobody: no logon, no connection     *)
(* request of a next data authority and no answer displaces it, and what   *)
(* its connection has reached is not lost while it stays.  A session is    *)
(* never deleted and never changes its aircraft.                           *)
HandoverStep ==
    \A a \in Address :
        sessions[a] # None =>
            /\ sessions'[a] # None
            /\ sessions'[a].aircraft = sessions[a].aircraft
            /\ Succeeds(sessions[a], sessions'[a])

HandoverByPromotion == [][HandoverStep]_vars

-----------------------------------------------------------------------------
(* The two slots as the line of DataAuthority.                             *)

PlaceOf(conn) == [station |-> conn.station, phase |-> Phase(conn)]

LineOf(s) ==
    CASE s = None \/ (s # None /\ s.active = None) -> << >>
      [] s # None /\ s.active # None /\ s.inactive = None -> <<PlaceOf(s.active)>>
      [] OTHER -> <<PlaceOf(s.active), PlaceOf(s.inactive)>>

NdaOf(s) == IF s = None THEN None ELSE s.nda

Line == [a \in Address |-> LineOf(sessions[a])]
Nda  == [a \in Address |-> NdaOf(sessions[a])]

Authority ==
    INSTANCE DataAuthority WITH
        Station  <- Callsign,
        Aircraft <- Address,
        Nobody   <- None,
        line     <- Line,
        nda      <- Nda

(* CPDLCServer implements DataAuthority: with its slots, its drafts that   *)
(* are written at the end and its failures half way, each step it takes is *)
(* one step of the line of some aircraft, or none.                         *)
ImplementsDataAuthority == Authority!AuthoritySpec

-----------------------------------------------------------------------------
(* What is said of the store and does not hold.                            *)

(* acars.rs:671: "Terminate this station from every relevant aircraft      *)
(* session."  When terminate_sessions_for_station returns, the station     *)
(* should hold no slot of any session.                                     *)
StationLeavesEverySession ==
    reply # None /\ reply.kind = "terminated" =>
        \A a \in Address :
            sessions[a] # None => ~InSlot(sessions[a], reply.callsign)
=============================================================================
