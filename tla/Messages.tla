------------------------------ MODULE Messages ------------------------------
(***************************************************************************)
(* One order's messages and receipt together: the requests that enqueue    *)
(* jobs (orders.service.ts, orderItems.service.ts) issue the links the     *)
(* messages carry, and a page can only be opened with a link that a        *)
(* provider has taken.                                                     *)
(***************************************************************************)
EXTENDS Notifications, ReceiptLinks

vars == <<msgVars, linkVars>>

Init == MsgInit /\ LinkInit

(* createOrderForTable: a channel that is not offered is rejected.          *)
PlaceOrder ==
    /\ \E c \in Channel : ChooseChannel(c)
    /\ Enqueue("order_received", 0)
    /\ UNCHANGED linkVars

(* updateOrderItemStatus, when the first item gets ready.  Bound: once the  *)
(* order is paid only messages with links are followed.                     *)
FirstReady ==
    /\ channel # None /\ link.token = 0
    /\ Enqueue("order_ready", 0)
    /\ UNCHANGED <<channel, linkVars>>

(* issueAndSendReceipt: a payment that finds a receipt sends nothing.       *)
IssueAndSend ==
    /\ channel # None
    /\ Mints
    /\ Issue
    /\ Enqueue("receipt", 1)
    /\ UNCHANGED <<channel, page>>

(* resendReceipt: the link in the customer's hands dies before the new one  *)
(* is enqueued.                                                             *)
Resend ==
    /\ Reissue
    /\ Enqueue("receipt", link.token + 1)
    /\ UNCHANGED <<channel, page>>

OpenLink(p) ==
    /\ \E token \in inbox : Open(p, token)
    /\ UNCHANGED msgVars

Requests == PlaceOrder \/ FirstReady \/ IssueAndSend \/ Resend

Next ==
    \/ Requests
    \/ MsgNext /\ UNCHANGED linkVars
    \/ ViewNext(channel) /\ UNCHANGED msgVars
    \/ \E p \in Page : OpenLink(p)

Spec == Init /\ [][Next]_vars

(* The event source mapping polls, timers fire and invocations run on; that *)
(* anybody orders, pays or opens a link is not assumed.                     *)
FairSpec ==
    /\ Spec
    /\ \A w \in Worker : WF_vars(WorkerStep(w) /\ UNCHANGED linkVars)
    /\ WF_vars(QueueStep /\ UNCHANGED linkVars)

-----------------------------------------------------------------------------
(* Properties *)

TypeOK == MsgTypeOK /\ LinkTypeOK

(* Every job ends: sent, given up on, or in the dead-letter queue.          *)
JobsEnd == \A j \in Job : job[j].state = "queued" ~> job[j].state \in {"acked", "dropped", "dead"}
=============================================================================
