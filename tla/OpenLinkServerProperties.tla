------------------------ MODULE OpenLinkServerProperties ------------------------
(***************************************************************************)
(* What the message loop of OpenLinkServer guarantees to its clients, and  *)
(* what the repository says of it.                                         *)
(***************************************************************************)
EXTENDS OpenLinkServer

CallsignOf(i) == registry[i].callsign

(* Client i, online as a participant of the session of a, has been shown   *)
(* that session as it is.                                                  *)
ViewCurrent(i, a) ==
    R!IsOnline(i) /\ sessions[a] # None /\ C!RelevantTo(sessions[a], CallsignOf(i))
      => views[i][a] = C!View(sessions[a], CallsignOf(i))

(* Whenever the loop is back at its select, and no fault has happened,     *)
(* every client that came online after it subscribed holds the current     *)
(* view of every session it takes part in: through logons, handovers,      *)
(* stations going offline, lapsed leases, and clients that vanish and come *)
(* back.                                                                   *)
ViewsCurrent ==
    Free /\ faults = 0 => \A i \in joined, a \in Address : ViewCurrent(i, a)

(* No two clients come online under one callsign, and none uses a callsign *)
(* of which there are two spellings: the index tells the clients apart.    *)
OwnCallsigns ==
    \A i \in StationId : \A c \in Licence[i] :
        /\ \A j \in StationId \ {i} : \A d \in Licence[j] : IndexKey[d] # IndexKey[c]
        /\ \A d \in Callsign : IndexKey[d] = IndexKey[c] => d = c

(* Station callsign is connected to the aircraft of a.                     *)
Connected(a, callsign) ==
    /\ sessions[a] # None
    /\ \E slot \in {sessions[a].active, sessions[a].inactive} :
         C!Holds(slot, callsign) /\ slot.connection

-----------------------------------------------------------------------------
(* Liveness. *)

(* The loop is fair to its two sources: a message that is always there, and *)
(* a tick of the presence ticker, is taken in the end, however many others *)
(* come in between; what is begun is carried on.  Clients that listen send *)
(* their heartbeat.  Nothing else is assumed of clients.                   *)
Heartbeat(i) ==
    /\ i \in listening
    /\ \E callsign \in Licence[i] :
         \/ StationStatus(i, "Online", callsign)
         \/ StationStatusFault(i, "Online", callsign)
         \/ SyncFault(i, callsign)

ServerFairness ==
    /\ WF_vars(ServerStep /\ ~Free)
    /\ SF_vars(SweepStart /\ \E i \in StationId : R!Stale(i))
    /\ SF_vars(Tick)

FairSpec == Spec /\ ServerFairness

(* A client that is online when it vanishes.                               *)
Vanished(i) == R!IsOnline(i) /\ i \notin listening

(* It is back, or no aircraft is connected to it.                          *)
Released(i) == i \in listening \/ \A a \in Address, c \in Licence[i] : ~Connected(a, c)

(* As long as no fault happens, a client that vanishes is in the end       *)
(* released, unless it comes back: its lease runs out, it is marked        *)
(* offline and its sessions are ended.                                     *)
VanishedAreReleased ==
    [](faults = 0) => \A i \in StationId : Vanished(i) ~> Released(i)

(* Whatever faults happened, a client that stays and sends its heartbeat   *)
(* is again and again online and shown the sessions it takes part in as    *)
(* they are.                                                               *)
HeartbeatsRepairViews ==
    \A i \in StationId :
        SF_vars(Heartbeat(i)) /\ <>[](i \in joined) =>
            []<>(R!IsOnline(i) /\ \A a \in Address : ViewCurrent(i, a))

-----------------------------------------------------------------------------
(* What is said of the loop and does not hold.                             *)

(* server.rs:377-380: ground stations get a SessionUpdate so that "ATC can *)
(* clear UI state even when connection slots are now empty".  A client     *)
(* should not be left with a view in which it has a connection that the    *)
(* session no longer has.                                                  *)
NoGhostConnection ==
    Free /\ faults = 0 =>
        \A i \in joined, a \in Address :
            (/\ R!IsOnline(i)
             /\ views[i][a] # None
             /\ \/ views[i][a].active # None
                \/ views[i][a].inactive # None)
              => C!RelevantTo(sessions[a], CallsignOf(i))
=============================================================================
