---------------------------- MODULE OrderLifecycle ----------------------------
(***************************************************************************)
(* One order from the moment it has been inserted: its items move through  *)
(* the stations, are cancelled, and the order is paid, each by an HTTP     *)
(* request that runs concurrently with the others against PostgreSQL at    *)
(* READ COMMITTED.  An action is the work of a request up to the next      *)
(* point where another request can get in between.                         *)
(*   src/src/modules/orderItems/*, orders/orders.service.ts (payment),     *)
(*   orders/orders.repository.ts, receipts/receipts.repository.ts.         *)
(* Rows of other orders are never read or written by these transactions,   *)
(* so one order is modelled.                                               *)
(***************************************************************************)
EXTENDS Integers, Sequences, FiniteSets

CONSTANTS
    Item,       \* the order's items (rows of order_item)
    Request,    \* the HTTP requests that ever arrive; each runs once
    NoRequest   \* holder of a row nobody has locked

(* insertOrder inserts at least one item with the order (the order form's   *)
(* schema requires one).                                                    *)
ASSUME OrderAssumption == Item # {} /\ NoRequest \notin Request

VARIABLES
    status,       \* order_item.status
    audit,        \* order_item_status_audit: the rows of each item, oldest first
    payment,      \* order.payment_status
    receiptRow,   \* TRUE once the order's receipt row exists
    lock,         \* who holds each item row FOR UPDATE
    pc,           \* where each request is
    job,          \* what a request in progress has read and decided
    readyNotices, \* order_ready notifications enqueued
    receiptsSent, \* receipt messages enqueued by payments
    completions,  \* order_complete broadcasts, each followed by closeRoom
    reports,      \* reporting events enqueued for this order, in order
    lateCancel,   \* history: a cancellation committed after the payment did
    unchecked     \* history: a request failed between its commit and its check

dbVars   == <<status, audit, payment, receiptRow>>
sentVars == <<readyNotices, receiptsSent, completions, reports>>
pastVars == <<lateCancel, unchecked>>
vars == <<status, audit, payment, receiptRow, lock, pc, job, readyNotices,
          receiptsSent, completions, reports, lateCancel, unchecked>>

-----------------------------------------------------------------------------
(* Types *)

LineStatus == {"received", "preparing", "ready", "served"}
ItemStatus == LineStatus \union {"cancelled"}
Terminal   == {"served", "cancelled"}

(* STATUS_ORDER.indexOf: a cancelled item is not in the list.               *)
Index == [s \in ItemStatus |->
            CASE s = "received"  -> 0
              [] s = "preparing" -> 1
              [] s = "ready"     -> 2
              [] s = "served"    -> 3
              [] s = "cancelled" -> -1]

(* "staff" is the stations' and waiters' own route, "admin" the console's   *)
(* override route, "customer" the tracking page.                            *)
Actor == {"staff", "admin", "customer"}

(* Only an admin takes an item back to 'received'; a customer only cancels,  *)
(* and only what nobody has started.                                        *)
AuditRow ==
    {row \in [from: ItemStatus, to: ItemStatus, by: Actor] :
        /\ row.from # row.to
        /\ row.to = "received" => row.by = "admin"
        /\ row.by = "customer" => row.from = "received" /\ row.to = "cancelled"}
Report   == [kind: {"order_paid", "order_items_cancelled"}, items: SUBSET Item]

(* rows: the status read under lock of each row the transaction will write. *)
Rows == UNION {[S -> ItemStatus] : S \in SUBSET Item}
Job  == [by: Actor, scope: SUBSET Item, rows: Rows, to: ItemStatus, first: BOOLEAN]

NoRows == [i \in {} |-> "received"]
NoJob  == [by |-> "staff", scope |-> {}, rows |-> NoRows, to |-> "received", first |-> FALSE]

Control == {"idle", "tapRead", "cancelRead", "write", "notify", "announce", "reportPaid",
            "receipt", "sendReceipt", "finalize", "closeRoom", "done"}

AuditRowOf(j, i) == [from |-> j.rows[i], to |-> j.to, by |-> j.by]

TypeOK ==
    /\ status \in [Item -> ItemStatus]
    /\ audit \in [Item -> Seq(AuditRow)]
    /\ payment \in {"unpaid", "paid"}
    /\ receiptRow \in BOOLEAN
    /\ lock \in [Item -> Request \union {NoRequest}]
    /\ pc \in [Request -> Control]
    /\ job \in [Request -> Job]
    /\ readyNotices \in Nat
    /\ receiptsSent \in Nat
    /\ completions \in Nat
    /\ reports \in Seq(Report)
    /\ lateCancel \in BOOLEAN
    /\ unchecked \in BOOLEAN

Init ==
    /\ status = [i \in Item |-> "received"]
    /\ audit = [i \in Item |-> <<>>]
    /\ payment = "unpaid"
    /\ receiptRow = FALSE
    /\ lock = [i \in Item |-> NoRequest]
    /\ pc = [r \in Request |-> "idle"]
    /\ job = [r \in Request |-> NoJob]
    /\ readyNotices = 0
    /\ receiptsSent = 0
    /\ completions = 0
    /\ reports = <<>>
    /\ lateCancel = FALSE
    /\ unchecked = FALSE

Goto(r, label) == pc' = [pc EXCEPT ![r] = label]

(* The response is sent; the request's locals go away.                      *)
Finish(r) ==
    /\ Goto(r, "done")
    /\ job' = [job EXCEPT ![r] = NoJob]

-----------------------------------------------------------------------------
(* Row locks: SELECT ... FOR UPDATE takes one row after the other, waiting   *)
(* for each until it is free.                                               *)

(* Mutant: the FOR UPDATE is forgotten.                                     *)
NeverBlocked(i) == TRUE
Free(i) == lock[i] = NoRequest

Lock(r, i) == lock' = [lock EXCEPT ![i] = r]

Held(r) == {i \in Item : lock[i] = r}

Unlock(r) == lock' = [i \in Item |-> IF lock[i] = r THEN NoRequest ELSE lock[i]]

(* The catch block rolls back and the client goes back to the pool.         *)
(* Mutant: without a ROLLBACK the open transaction keeps its rows.          *)
NoRollback(r) == UNCHANGED lock
RollBack(r) == Unlock(r)

-----------------------------------------------------------------------------
(* A status tap: transitionOrderItemStatus called from updateOrderItemStatus *)

(* The statuses the two routes accept.                                      *)
(* Mutant: the stations' route accepts every status of the line.            *)
AnyStatus(by) == LineStatus
Tappable(by) == IF by = "admin" THEN LineStatus ELSE LineStatus \ {"received"}

TapAllowed(by, from, to) ==
    /\ Index[to] # Index[from]
    /\ Index[to] < Index[from] => by = "admin"

(* isFirstReadyForOrder: the count of the order's other items is a plain    *)
(* read, it waits for no lock and sees committed rows only.                 *)
FirstReady(i, to) ==
    /\ to = "ready"
    /\ Index[to] > Index[status[i]]
    /\ \A j \in Item \ {i} : status[j] \notin {"ready", "served"}

TapBegin(r, by, i, to) ==
    /\ pc[r] = "idle"
    /\ job' = [job EXCEPT ![r] = [NoJob EXCEPT !.by = by, !.scope = {i}, !.to = to]]
    /\ Goto(r, "tapRead")
    /\ UNCHANGED <<dbVars, lock, sentVars, pastVars>>

TapRefused(r) ==
    /\ pc[r] = "tapRead"
    /\ \E i \in job[r].scope :
          Free(i) /\ ~TapAllowed(job[r].by, status[i], job[r].to)
    /\ Finish(r)
    /\ UNCHANGED <<dbVars, lock, sentVars, pastVars>>

Tap(r) ==
    /\ pc[r] = "tapRead"
    /\ \E i \in job[r].scope :
          /\ Free(i)
          /\ TapAllowed(job[r].by, status[i], job[r].to)
          /\ Lock(r, i)
          /\ job' = [job EXCEPT ![r].rows  = [j \in {i} |-> status[j]],
                                ![r].first = FirstReady(i, job[r].to)]
    /\ Goto(r, "write")
    /\ UNCHANGED <<dbVars, sentVars, pastVars>>

-----------------------------------------------------------------------------
(* Cancelling: cancelOrderItems called as the customer or as staff          *)

Cancellable == LineStatus \ {"served"}

Live == {i \in Item : status[i] # "cancelled"}

(* The rows SELECT ... FOR UPDATE locks: all the order's, whatever is asked. *)
(* Mutant: only the requested rows are locked.                              *)
LockScopeOnly(scope) == scope
CancelLocks(scope) == Item

CancelTargets(scope) == {i \in Live \intersect scope : status[i] \in Cancellable}

CancelAllowed(by, scope) ==
    /\ by = "customer" => \A i \in Live : status[i] = "received"
    /\ CancelTargets(scope) # {}

(* The payment status is read before the rows are locked, from a row this   *)
(* transaction never locks.                                                 *)
CancelBegin(r, by, scope) ==
    /\ pc[r] = "idle"
    /\ IF payment = "paid"
         THEN Finish(r)
         ELSE /\ job' = [job EXCEPT ![r] = [NoJob EXCEPT !.by = by, !.scope = scope]]
              /\ Goto(r, "cancelRead")
    /\ UNCHANGED <<dbVars, lock, sentVars, pastVars>>

(* The statement has no ORDER BY: the rows come in whatever order the plan   *)
(* delivers them.                                                           *)
CancelLockRow(r, i) ==
    /\ pc[r] = "cancelRead"
    /\ i \in CancelLocks(job[r].scope) \ Held(r)
    /\ Free(i)
    /\ Lock(r, i)
    /\ UNCHANGED <<dbVars, pc, job, sentVars, pastVars>>

(* Two cancellations that each hold a row may wait for one another's: which   *)
(* row each wants next is up to its plan.  PostgreSQL ends the circle by      *)
(* failing the statement of one of them.                                    *)
DeadlockAbort(r) ==
    /\ pc[r] = "cancelRead"
    /\ \E s \in Request \ {r} :
          pc[s] = "cancelRead" /\ Held(r) # {} /\ Held(s) # {}
    /\ RollBack(r)
    /\ Finish(r)
    /\ UNCHANGED <<dbVars, sentVars, pastVars>>

AllLocked(r) == pc[r] = "cancelRead" /\ CancelLocks(job[r].scope) \subseteq Held(r)

CancelRefused(r) ==
    /\ AllLocked(r)
    /\ ~CancelAllowed(job[r].by, job[r].scope)
    /\ RollBack(r)
    /\ Finish(r)
    /\ UNCHANGED <<dbVars, sentVars, pastVars>>

CancelDecide(r) ==
    /\ AllLocked(r)
    /\ CancelAllowed(job[r].by, job[r].scope)
    /\ job' = [job EXCEPT ![r].rows = [i \in CancelTargets(job[r].scope) |-> status[i]],
                          ![r].to   = "cancelled"]
    /\ Goto(r, "write")
    /\ UNCHANGED <<dbVars, lock, sentVars, pastVars>>

-----------------------------------------------------------------------------
(* Both transactions end the same way: the rows are updated, one audit row  *)
(* is inserted for each, and COMMIT releases the locks.                     *)

NewStatus(j) == [i \in Item |-> IF i \in DOMAIN j.rows THEN j.to ELSE status[i]]

NewAudit(j) ==
    [i \in Item |->
        IF i \in DOMAIN j.rows
          THEN Append(audit[i], AuditRowOf(j, i))
          ELSE audit[i]]

(* What the service does next with what the transaction returned.           *)
(* Mutant: serving the last item does not check for completion.             *)
NeverFinalize(j) ==
    CASE j.to = "cancelled" -> "announce"
      [] j.first            -> "notify"
      [] OTHER              -> "done"
AfterCommit(j) ==
    CASE j.to = "cancelled" -> "announce"
      [] j.first            -> "notify"
      [] j.to = "served"    -> "finalize"
      [] OTHER              -> "done"

Commit(r) ==
    /\ pc[r] = "write"
    /\ status' = NewStatus(job[r])
    /\ audit' = NewAudit(job[r])
    /\ Unlock(r)
    /\ Goto(r, AfterCommit(job[r]))
    /\ job' = IF AfterCommit(job[r]) = "announce"
                THEN job ELSE [job EXCEPT ![r] = NoJob]
    /\ lateCancel' = (lateCancel \/ (job[r].to = "cancelled" /\ payment = "paid"))
    /\ UNCHANGED <<payment, receiptRow, sentVars, unchecked>>

(* An enqueue that fails is logged and swallowed.                           *)
NotifyReady(r) ==
    /\ pc[r] = "notify"
    /\ readyNotices' \in {readyNotices, readyNotices + 1}
    /\ Finish(r)
    /\ UNCHANGED <<dbVars, lock, receiptsSent, completions, reports, pastVars>>

Enqueued(kind, items) ==
    {reports, Append(reports, [kind |-> kind, items |-> items])}

(* Mutant: the event names every item asked for, not those cancelled.       *)
ReportScope(j) == j.scope
ReportedItems(j) == DOMAIN j.rows

Announce(r) ==
    /\ pc[r] = "announce"
    /\ reports' \in Enqueued("order_items_cancelled", ReportedItems(job[r]))
    /\ Finish(r)
    /\ UNCHANGED <<dbVars, lock, readyNotices, receiptsSent, completions, pastVars>>

-----------------------------------------------------------------------------
(* Payment: markOrderPaid                                                    *)

Pay(r) ==
    /\ pc[r] = "idle"
    /\ payment' = "paid"
    /\ Goto(r, "reportPaid")
    /\ UNCHANGED <<status, audit, receiptRow, lock, job, sentVars, pastVars>>

ReportPaid(r) ==
    /\ pc[r] = "reportPaid"
    /\ reports' \in Enqueued("order_paid", {})
    /\ Goto(r, "receipt")
    /\ UNCHANGED <<dbVars, lock, job, readyNotices, receiptsSent, completions, pastVars>>

(* insertReceipt: ON CONFLICT DO NOTHING returns a row to one caller only.  *)
(* Mutant: the insert overwrites instead of doing nothing on conflict.      *)
AlwaysMint == TRUE
MintsReceipt == ~receiptRow

IssueReceipt(r) ==
    /\ pc[r] = "receipt"
    /\ receiptRow' = TRUE
    /\ Goto(r, IF MintsReceipt THEN "sendReceipt" ELSE "finalize")
    /\ UNCHANGED <<status, audit, payment, lock, job, sentVars, pastVars>>

(* The insert fails: issueAndSendReceipt logs the error and goes on.        *)
NoReceipt(r) ==
    /\ pc[r] = "receipt"
    /\ Goto(r, "finalize")
    /\ UNCHANGED <<dbVars, lock, job, sentVars, pastVars>>

(* Any error on the way to the queue is swallowed.                          *)
SendReceipt(r) ==
    /\ pc[r] = "sendReceipt"
    /\ receiptsSent' \in {receiptsSent, receiptsSent + 1}
    /\ Goto(r, "finalize")
    /\ UNCHANGED <<dbVars, lock, job, readyNotices, completions, reports, pastVars>>

-----------------------------------------------------------------------------
(* finalizeOrderIfComplete, after a payment and after an item is served      *)

(* Mutant: payment is not part of being complete.                           *)
CompleteIfServed == \A i \in Item : status[i] \in Terminal
Complete == payment = "paid" /\ \A i \in Item : status[i] \in Terminal

CheckComplete(r) ==
    /\ pc[r] = "finalize"
    /\ Goto(r, IF Complete THEN "closeRoom" ELSE "done")
    /\ UNCHANGED <<dbVars, lock, job, sentVars, pastVars>>

CloseRoom(r) ==
    /\ pc[r] = "closeRoom"
    /\ completions' = completions + 1
    /\ Goto(r, "done")
    /\ UNCHANGED <<dbVars, lock, job, readyNotices, receiptsSent, reports, pastVars>>

-----------------------------------------------------------------------------
(* Errors *)

(* Where a request that may have completed the order still has the          *)
(* completion check or its announcement before it.                          *)
OnItsWay == {"reportPaid", "receipt", "sendReceipt", "finalize", "closeRoom"}

(* At any point the request may end with an error, or its process with it:   *)
(* before COMMIT the transaction is rolled back; after it what was committed *)
(* stays and the rest is not made up for.  The reads that follow the commit  *)
(* of a tap (the table's waiter, the tracked order, isOrderFullyComplete)    *)
(* are not caught.                                                          *)
Fail(r) ==
    /\ pc[r] \notin {"idle", "done"}
    /\ RollBack(r)
    /\ Finish(r)
    /\ unchecked' = (unchecked \/ pc[r] \in OnItsWay)
    /\ UNCHANGED <<dbVars, sentVars, lateCancel>>

-----------------------------------------------------------------------------

CancelScopes == {Item} \union {{i} : i \in Item}

Begin(r) ==
    \/ \E by \in {"staff", "admin"}, i \in Item : \E to \in Tappable(by) :
          TapBegin(r, by, i, to)
    \/ \E by \in {"staff", "customer"}, scope \in CancelScopes :
          CancelBegin(r, by, scope)
    \/ Pay(r)

Advance(r) ==
    \/ Tap(r)
    \/ TapRefused(r)
    \/ \E i \in Item : CancelLockRow(r, i)
    \/ DeadlockAbort(r)
    \/ CancelRefused(r)
    \/ CancelDecide(r)
    \/ Commit(r)
    \/ NotifyReady(r)
    \/ Announce(r)
    \/ ReportPaid(r)
    \/ IssueReceipt(r)
    \/ NoReceipt(r)
    \/ SendReceipt(r)
    \/ CheckComplete(r)
    \/ CloseRoom(r)

(* Every request has been answered; nothing is left to do.                  *)
Quiescent == (\A r \in Request : pc[r] = "done") /\ UNCHANGED vars

Next == (\E r \in Request : Begin(r) \/ Advance(r) \/ Fail(r)) \/ Quiescent

Spec == Init /\ [][Next]_vars

(* A handler that has started keeps running: the process schedules it, and  *)
(* PostgreSQL grants a lock once it is free and breaks a deadlock.  Neither  *)
(* that requests arrive nor that they fail is assumed.                      *)
FairSpec == Spec /\ \A r \in Request : WF_vars(Advance(r))
-----------------------------------------------------------------------------
(* Properties *)

(* While transitionOrderItemStatus or cancelOrderItems is between its       *)
(* SELECT ... FOR UPDATE and its COMMIT, the rows it is about to write are  *)
(* its own and still hold the status it read; a cancellation holds all of   *)
(* the order's rows.                                                        *)
RowsHeld ==
    \A r \in Request : pc[r] = "write" =>
        /\ \A i \in DOMAIN job[r].rows : lock[i] = r /\ status[i] = job[r].rows[i]
        /\ job[r].to = "cancelled" => \A i \in Item : lock[i] = r

(* The audit trail of order_item_status_audit tells the whole story of an   *)
(* item: it starts at 'received', every row starts where the previous one   *)
(* ended, and the last row ends at the item's status, whatever taps,        *)
(* overrides and cancellations ran at the same time.                        *)
AuditChain ==
    \A i \in Item : LET trail == audit[i] IN
        /\ trail = <<>> => status[i] = "received"
        /\ trail # <<>> => trail[1].from = "received" /\ trail[Len(trail)].to = status[i]
        /\ \A k \in 1 .. Len(trail) - 1 : trail[k].to = trail[k + 1].from

(* Item statuses only move forward along received-preparing-ready-served:   *)
(* a step that moves an item back is an admin's override, or takes the item *)
(* off the line by cancelling it.  Two taps that race must not undo one     *)
(* another.                                                                 *)
ForwardOnly ==
    [][\A i \in Item :
          Index[status'[i]] < Index[status[i]] =>
              \/ status'[i] = "cancelled"
              \/ audit'[i][Len(audit'[i])].by = "admin"]_vars

(* What has been served has reached the customer: no cancellation, however  *)
(* it interleaves with the tap that serves the item, takes it off the bill. *)
ServedNotCancelled ==
    [][\A i \in Item : status[i] = "served" => status'[i] # "cancelled"]_vars

(* From the moment cancelOrderItems lets a customer's cancellation through  *)
(* until it commits, nothing on the whole order has been started, even when *)
(* the customer cancels a single item.                                      *)
CustomerCancelsUntouched ==
    \A r \in Request : pc[r] = "write" /\ job[r].by = "customer" =>
        \A i \in Item : status[i] \in {"received", "cancelled"}

(* However often and however concurrently an order is marked paid, payments *)
(* send at most one receipt link, and only for a paid order: a second link  *)
(* would carry a token that does not open anything.                         *)
ReceiptOnce == receiptsSent <= 1 /\ (receiptsSent = 1 => payment = "paid")

(* order_complete tells the tracking page to stop listening for good.  Once *)
(* it has been sent the order is paid and every item is served or           *)
(* cancelled, except items that were moved on from such a status afterwards *)
(* (their audit trail says so): no late tap or payment reopens the order.   *)
AnnouncedStaysComplete ==
    completions > 0 =>
        /\ payment = "paid"
        /\ \A i \in Item : \/ status[i] \in Terminal
                           \/ \E k \in DOMAIN audit[i] : audit[i][k].from \in Terminal

(* The order's websocket room is not left open: when an order has become    *)
(* paid and fully served or cancelled, order_complete has been sent or a    *)
(* request is still on its way to send it, whichever of the payment and the *)
(* last serve commits first.  There are two exceptions.  A request that      *)
(* fails after its commit never makes its check, and nothing makes it up;    *)
(* and a cancellation that commits after the payment, whose check of the     *)
(* payment it overtook, never looks whether it completed the order.         *)
CompletionNotMissed ==
    Complete /\ ~lateCancel /\ ~unchecked =>
        \/ completions > 0
        \/ \E r \in Request : pc[r] \in OnItsWay

ReportedCancels(i) == {k \in DOMAIN reports : i \in reports[k].items}
PendingCancels(i)  == {r \in Request : pc[r] = "announce" /\ i \in DOMAIN job[r].rows}
CommittedCancels(i) == {k \in DOMAIN audit[i] : audit[i][k].to = "cancelled"}

(* Reporting subtracts every item an order_items_cancelled event names from *)
(* the order's sales, so an item is named no more often than it was really  *)
(* cancelled: cancelling the rest of a half-served order must not subtract  *)
(* what was served, nor what another request had cancelled.                 *)
SalesNotUnderstated ==
    \A i \in Item :
        Cardinality(ReportedCancels(i)) + Cardinality(PendingCancels(i))
            <= Cardinality(CommittedCancels(i))

(* No request waits for ever, although cancellations lock an order's rows   *)
(* one by one in any order and may wait for each other in a circle: the      *)
(* victim PostgreSQL picks rolls back, as does every other way out of a      *)
(* transaction, and the rest go through, taps that wait for a row included.  *)
RequestsFinish == \A r \in Request : pc[r] # "idle" ~> pc[r] = "done"

(* The notification order_ready is documented to be sent exactly once per   *)
(* order, on the first item to reach ready.  Two taps that read the other   *)
(* item's status before either commits both see themselves as first.        *)
ReadyNoticeOnce == readyNotices <= 1

(* A cancelled item is documented to be terminal like a served one.  The    *)
(* station's tap accepts it, since 'cancelled' has index -1 in STATUS_ORDER *)
(* and every status lies ahead of it.                                       *)
CancelledIsTerminal ==
    [][\A i \in Item : status[i] = "cancelled" => status'[i] = "cancelled"]_vars
=============================================================================
