------------------------- MODULE HoppieBridgeProperties -------------------------
(***************************************************************************)
(* What the bridge promises to pilots and controllers who never see one    *)
(* another's numbering, and what breaks the promise.                       *)
(***************************************************************************)
EXTENDS HoppieBridge

Places(kind) == {i \in DOMAIN published : published[i].kind = kind}

(* A pilot's answer reaches OpenLink with the MIN that the controller gave *)
(* to the message it answers, although the bridge renumbers what pilots    *)
(* send and keeps those numbers in the map it translates references with.  *)
AnswersResolve ==
    \A i \in Places("text") :
        published[i].answers # 0 => published[i].mrn = published[i].answers

(* Two texts of one pair have the same MIN only when the MINs were used up *)
(* between them: pilots that repeat or restart their own numbering, other  *)
(* pairs, and texts that were numbered and then lost do not matter.        *)
MinsReusedLast ==
    \A i, j \in Places("text") :
        /\ i < j
        /\ published[i].pair = published[j].pair
        /\ published[i].min = published[j].min
        => Cardinality({n \in Places("text") :
                            i < n /\ n <= j /\ published[n].pair = published[i].pair})
             + faults >= MaxMin

(* A pilot who reads LOGON ACCEPTED is connected as far as the bridge can  *)
(* tell: the request and then the answer that make the connection were     *)
(* published for that acceptance before the pilot was told.                *)
AcceptanceIsBacked ==
    \A t \in DOMAIN told : told[t].says = "accepted" =>
        \E i \in Places("request"), j \in Places("response") :
            /\ i < j
            /\ published[i].for = told[t].for /\ published[j].for = told[t].for
            /\ published[i].pair = told[t].pair /\ published[j].pair = told[t].pair

(* An envelope that is delivered again makes no second connection and is   *)
(* not told twice, unless a full set of seen messages was emptied between; *)
(* also when the first delivery failed on the way.                         *)
RelayedOnce ==
    ~emptied =>
        /\ \A i, j \in Places("request") :
             published[i].for = published[j].for => i = j
        /\ \A s, t \in DOMAIN told : told[s].for = told[t].for => s = t
=============================================================================
