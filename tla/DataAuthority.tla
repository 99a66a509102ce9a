----------------------------- MODULE DataAuthority -----------------------------
(***************************************************************************)
(* What the session store promises, without slots, drafts or calls: every  *)
(* aircraft has a line of at most two ground stations.  The head of the    *)
(* line is the current data authority; whoever comes next waits behind it, *)
(* and takes over when the head leaves.  A station moves from pending      *)
(* through logged on to connected and never back while it keeps its place. *)
(* Only while the head is connected may a message of the dialogue rename   *)
(* the next data authority or take a station out of the line.              *)
(***************************************************************************)
EXTENDS Integers, Sequences

CONSTANTS
    Station,
    Aircraft,
    Nobody      \* no station

VARIABLES
    line,   \* aircraft -> its line of stations, each with its phase
    nda     \* aircraft -> its next data authority, or Nobody

Place == [station : Station, phase : {"LogonPending", "LoggedOn", "Connected"}]

AuthorityInit ==
    /\ line = [a \in Aircraft |-> << >>]
    /\ nda  = [a \in Aircraft |-> Nobody]

(* The place of a station is its first one.                                *)
FirstPlace(l, s) ==
    {i \in DOMAIN l : l[i].station = s /\ \A j \in 1..(i - 1) : l[j].station # s}

(* A newcomer goes to the end of the line; the second place is taken over. *)
Join(a, p) ==
    /\ line' = [line EXCEPT ![a] = IF @ = << >> THEN <<p>> ELSE <<Head(@), p>>]
    /\ UNCHANGED nda

AskLogon(a, s) == Join(a, [station |-> s, phase |-> "LogonPending"])

(* The next data authority need not log on first.                          *)
AskConnection(a, s) ==
    /\ s = nda[a]
    /\ FirstPlace(line[a], s) = {}
    /\ Join(a, [station |-> s, phase |-> "LoggedOn"])

Promote(a, s, from, to) ==
    /\ \E i \in FirstPlace(line[a], s) :
         /\ line[a][i].phase = from
         /\ line' = [line EXCEPT ![a][i].phase = to]
    /\ UNCHANGED nda

(* The line without its place i.                                           *)
Without(l, i) == IF i = 1 THEN Tail(l) ELSE <<Head(l)>>

(* Station s gives up its place, if it has one.                            *)
Leave(l, s) == {Without(l, i) : i \in FirstPlace(l, s)}

(* Station s gives up none, one or both of its places.                     *)
Leaving(l, s) == {l} \cup Leave(l, s) \cup UNION {Leave(m, s) : m \in Leave(l, s)}

(* An application message under a connected head.                          *)
Command(a, s) ==
    /\ line[a] # << >>
    /\ Head(line[a]).phase = "Connected"
    /\ \E l \in Leaving(line[a], s) : line' = [line EXCEPT ![a] = l]
    /\ \E n \in Station \cup {nda[a]} : nda' = [nda EXCEPT ![a] = n]

(* A station that went offline leaves.                                     *)
Depart(a, s) ==
    /\ \E l \in Leave(line[a], s) : line' = [line EXCEPT ![a] = l]
    /\ UNCHANGED nda

AuthorityNext ==
    \E a \in Aircraft, s \in Station :
      \/ AskLogon(a, s)
      \/ AskConnection(a, s)
      \/ Promote(a, s, "LogonPending", "LoggedOn")
      \/ Promote(a, s, "LoggedOn", "Connected")
      \/ Command(a, s)
      \/ Depart(a, s)

AuthoritySpec == AuthorityInit /\ [][AuthorityNext]_<<line, nda>>
=============================================================================
