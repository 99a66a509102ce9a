----------------------------- MODULE WebProperties ------------------------------
(***************************************************************************)
(* What holds of the web demonstrator between keys, promises and messages, *)
(* and what is said of its DCDU.                                           *)
(***************************************************************************)
EXTENDS WebScreens

AwaitedFor(i, kinds) == \E k \in DOMAIN pending : pending[k].row = i /\ pending[k].kind \in kinds

(* No message is stuck in a state that shuts off its keys: an uplink that  *)
(* is being answered, and a draft that is being sent, has a promise that   *)
(* will settle, however many messages arrive and connections break         *)
(* meanwhile (useOpenLink.ts: sendResponse, sendDraft).                    *)
TransientIsAwaited ==
    \A i \in DOMAIN rows :
        /\ rows[i].status = "responding" => AwaitedFor(i, Intent)
        /\ rows[i].status = "sending" => AwaitedFor(i, {"draft"})

(* As long as no connection failed, an uplink gets one short answer, or    *)
(* STANDBY and then one other, although dialogues are closed by the        *)
(* station while an answer is under way (useOpenLink.ts: sendResponse;     *)
(* DcduScreen.tsx: the keys that are offered).                             *)
AnsweredOnce ==
    faults = 0 =>
        \A j, k \in DOMAIN sent :
            j < k /\ sent[j].row = sent[k].row /\ {sent[j].what, sent[k].what} \subseteq Intent
            => sent[j].what = "Standby" /\ sent[k].what # "Standby"

(* Who left is not announced again: from the farewell on, until the pilot  *)
(* connects anew, no heartbeat says ONLINE (disconnectFromOpenLink; the    *)
(* timer and the farewell both publish).                                   *)
FarewellIsLast ==
    \/ leaving # "no" /\ ~closed
    \/ status = "disconnected" /\ client = None
    => presence # "online"

(* Every message is handled once: there is one listener while connected    *)
(* and none after leaving, as long as no connection failed                 *)
(* (connectToOpenLink; the SDK's disconnect).                              *)
HeardOnce ==
    faults = 0 => subs = IF client # None /\ leaving # "drain" THEN {client} ELSE {}

(* What may never happen to an uplink that is closed: that it asks for an  *)
(* answer again, but for the answer that was under way when it was closed, *)
(* whose promise sets its own status.                                      *)
ReopenedByItsAnswer ==
    [][\A i \in DOMAIN rows \cap DOMAIN rows' :
           ~rows[i].out /\ rows[i].status = "responded" /\ rows'[i].status # "responded"
           => AwaitedFor(i, Intent)]_vars

-----------------------------------------------------------------------------
(* Liveness.  NATS answers a flush or gives the connection up, so every    *)
(* promise settles, and a drain ends.  Nothing is assumed of the pilot and *)
(* of messages.                                                            *)

FairSpec ==
    Spec /\ WF_vars(Flushed /\ UNCHANGED screens) /\ WF_vars(FlushFailed /\ UNCHANGED screens)
         /\ WF_vars(LeaveCockpit)

(* Who disconnects gets back to the form, whatever is pressed and arrives  *)
(* meanwhile, as long as the connection is not closed before.              *)
DisconnectEnds == [](~closed) => (leaving # "no" ~> status = "disconnected")

-----------------------------------------------------------------------------
(* What is said of the DCDU and does not hold.                             *)

(* useOpenLink.ts:566, of a message transferred from the MCDU: "The pilot  *)
(* can then review it and press SEND on the DCDU."  A draft is in the list *)
(* the pilot browses, or under an uplink that is.                          *)
DraftsAreWithinReach ==
    \A i \in DOMAIN rows :
        rows[i].status = "draft" /\ Linked(i) =>
            \E u \in DOMAIN rows : ~Linked(u) /\ i \in LinkedResponses(u)
=============================================================================
