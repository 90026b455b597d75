------------------------------ MODULE Reporting ------------------------------
(***************************************************************************)
(* The way of a sale into the reports: requests commit to the operational  *)
(* tables and then enqueue an event, a queue per order (SQS FIFO in        *)
(* production, a chain of promises in local development) hands the events  *)
(* to the worker, and the worker writes the two fact tables the reports    *)
(* read.                                                                   *)
(*   src/src/modules/reports/, src/src/lambda-reporting-worker.ts,         *)
(*   the enqueuing parts of orders.service.ts and cancellation.service.ts, *)
(*   src/infra/lib/reporting-queue-stack.ts.                               *)
(***************************************************************************)
EXTENDS Integers, Sequences, FiniteSetsExt

CONSTANTS
    Order, Item, Waiter, None, NoFact,
    Amount, Quantity,  \* of each line; every order has the lines Item
    TableOf, CategoryOf,
    Historic,          \* orders that were there when the fact tables were created
    Active,            \* bound: the orders requests come for
    LastDay,           \* bound: the days that pass
    BatchSize,         \* records per invocation of the Lambda worker
    MaxReceives,       \* maxReceiveCount of the queue's redrive policy
    MaxAttempts,       \* MAX_ATTEMPTS of the in-memory queue
    MaxFaults,         \* bound: mishaps: statements, sends and invocations that
                       \* fail, and cancelled lines that are taken back
    MaxRequests,       \* bound: payments and cancellations of one order
    MaxRawRows         \* MAX_RAW_ROWS of an export

Day == 0 .. LastDay

(* report_order_fact                                                        *)
FactRow == [day: Day, waiter: Waiter \union {None}, paid: BOOLEAN,
            gross: Nat, count: Nat, cancelled: Nat, cancelledCount: Nat]

(* The live page asks for one dimension at a time; an export for one        *)
(* dataset or None.                                                         *)
Dimensions == {"menu_item", "category", "waiter", "table"}

ASSUME ReportingAssumption ==
    /\ IsFiniteSet(Item) /\ Amount \in [Item -> Nat] /\ Quantity \in [Item -> Nat \ {0}]
    /\ Historic \subseteq Order /\ IsFiniteSet(Historic)
    /\ None \notin Waiter \union Day /\ None \notin Dimensions /\ NoFact \notin FactRow
    /\ {LastDay, MaxFaults, MaxRequests, MaxRawRows} \subseteq Nat
    /\ {BatchSize, MaxReceives, MaxAttempts} \subseteq Nat \ {0}

VARIABLES
    kind,      \* which queue getReportingQueue picked: "sqs" or "local"
    today,     \* the current day in Nairobi
    placed,    \* order -> the day it was inserted on, or None
    live,      \* order -> its lines that are not cancelled
    payments,  \* order -> how often it was marked paid
    asked,     \* bound: order -> its payments and cancellations so far
    outbox,    \* order -> events whose request has committed but not yet enqueued
    sent,      \* order -> bodies accepted by the queue
    queue,     \* order -> messages of its group, oldest first
    batch,     \* order -> how many of them the running invocation holds (sqs)
    tail,      \* order -> the id in tailsByOrder, 0 when there is no entry (local)
    fact,      \* report_order_fact: order -> row or NoFact
    lines,     \* report_order_item_fact: order -> lines that have a row
    faults,    \* how many of these mishaps have happened
    hurt       \* history: orders to which one of the five mishaps below happened

orderVars == <<placed, live, payments, asked>>
queueVars == <<outbox, sent, queue, batch, tail>>
factVars  == <<fact, lines>>
vars == <<kind, today, placed, live, payments, asked, outbox, sent, queue, batch, tail,
          fact, lines, faults, hurt>>

-----------------------------------------------------------------------------
(* Events and messages *)

Event == [type: {"order_placed", "order_waiter_assigned", "order_paid", "order_items_cancelled"},
          day: Day, waiter: Waiter \union {None}, items: SUBSET Item, nth: Nat]

NoEvent == [type |-> "order_paid", day |-> 0, waiter |-> None, items |-> {}, nth |-> 0]
PlacedEvent(o)   == [NoEvent EXCEPT !.type = "order_placed", !.day = placed[o], !.items = Item]
AssignedEvent(w) == [NoEvent EXCEPT !.type = "order_waiter_assigned", !.waiter = w]
PaidEvent(n)     == [NoEvent EXCEPT !.nth = n]
CancelEvent(s)   == [NoEvent EXCEPT !.type = "order_items_cancelled", !.items = s]

(* What is serialised: nth only tells two identical payments apart here.    *)
Body(e) == [e EXCEPT !.nth = 0]

(* step: "queued", before the "second" statement of the worker, or handled  *)
(* within a running invocation ("ok", "failed").                            *)
Message == [event: Event, id: Nat, after: Nat, tries: Nat,
            step: {"queued", "second", "ok", "failed"}]

Ids(o) == {queue[o][k].id : k \in DOMAIN queue[o]}

(* What the headline rows are to implement: SalesLedger's book is the table *)
(* report_order_fact, its lines are the items of an order.                  *)
Ledger == INSTANCE SalesLedger WITH book <- fact, Line <- Item, Unbooked <- NoFact

(* toNairobiDateString: the day an instant falls on is a function of the    *)
(* instant alone, so an event's submittedAt is represented by its day.      *)
(* Mutant: a sale counts for the day its event is handled on.               *)
DayHandled(event) == today
ReportDate(event) == event.day

-----------------------------------------------------------------------------
(* Orders that existed when the tables were created were backfilled from    *)
(* the operational tables, unpaid or paid.                                  *)
Init ==
    /\ kind \in {"sqs", "local"}
    /\ today = 0
    /\ placed = [o \in Order |-> IF o \in Historic THEN 0 ELSE None]
    /\ live = [o \in Order |-> Item]
    /\ payments = [o \in Order |-> 0]
    /\ asked = [o \in Order |-> 0]
    /\ outbox = [o \in Order |-> {}]
    /\ sent = [o \in Order |-> {}]
    /\ queue = [o \in Order |-> <<>>]
    /\ batch = [o \in Order |-> 0]
    /\ tail = [o \in Order |-> 0]
    /\ fact = [o \in Order |-> IF o \in Historic THEN Ledger!NewFact(0) ELSE NoFact]
    /\ lines = [o \in Order |-> IF o \in Historic THEN Item ELSE {}]
    /\ faults = 0
    /\ hurt = {}

Fault == faults < MaxFaults /\ faults' = faults + 1
Hurt(o) == hurt' = hurt \union {o}

-----------------------------------------------------------------------------
(* Requests: each commits and leaves its event to be enqueued.              *)

NextDay ==
    /\ today < LastDay
    /\ today' = today + 1
    /\ UNCHANGED <<kind, orderVars, queueVars, factVars, faults, hurt>>

(* Bound: nothing more is asked of an order placed on the last day.         *)
MayRequest(o) == placed[o] # None /\ placed[o] < LastDay /\ asked[o] < MaxRequests
Asked(o) == asked' = [asked EXCEPT ![o] = @ + 1]

Place(o) ==
    /\ placed[o] = None
    /\ placed' = [placed EXCEPT ![o] = today]
    /\ outbox' = [outbox EXCEPT ![o] = {[PlacedEvent(o) EXCEPT !.day = today]}]
    /\ UNCHANGED <<kind, today, live, payments, asked, sent, queue, batch, tail, factVars, faults, hurt>>

(* Marking an order paid checks nothing: it may be done again.              *)
Pay(o) ==
    /\ MayRequest(o)
    /\ Asked(o)
    /\ payments' = [payments EXCEPT ![o] = @ + 1]
    /\ outbox' = [outbox EXCEPT ![o] = @ \union {PaidEvent(payments[o] + 1)}]
    /\ UNCHANGED <<kind, today, placed, live, sent, queue, batch, tail, factVars, faults, hurt>>

(* The payment is looked at before the rows are locked, so an order that is *)
(* paid in between loses lines all the same.                                *)
Cancel(o, items) ==
    /\ MayRequest(o)
    /\ Asked(o)
    /\ items # {} /\ items \subseteq live[o]
    /\ live' = [live EXCEPT ![o] = @ \ items]
    /\ outbox' = [outbox EXCEPT ![o] = @ \union {CancelEvent(items)}]
    /\ UNCHANGED <<kind, today, placed, payments, sent, queue, batch, tail, factVars, faults, hurt>>

(* A tap takes a cancelled line back (OrderLifecycle, order_revived); no    *)
(* event tells the reports.                                                 *)
Revive(o, i) ==
    /\ MayRequest(o)
    /\ i \in Item \ live[o]
    /\ live' = [live EXCEPT ![o] = @ \union {i}]
    /\ Fault
    /\ Hurt(o)
    /\ UNCHANGED <<kind, today, placed, payments, asked, queueVars, factVars>>

(* After order_placed the placing request goes on to the waiter, if there   *)
(* is one to assign, whether or not that enqueue succeeded.                 *)
OutboxAfter(o, e) ==
    IF e.type = "order_placed"
      THEN {outbox[o] \ {e}} \union {(outbox[o] \ {e}) \union {AssignedEvent(w)} : w \in Waiter}
      ELSE {outbox[o] \ {e}}

(* The event overtakes the order_placed event it builds on.                 *)
Overtakes(o, e) == \E p \in outbox[o] : p.type = "order_placed" /\ e # p

(* enqueue of SqsReportingQueue: MessageGroupId is the order.  A body that  *)
(* was accepted before is dropped if that was less than five minutes ago    *)
(* (contentBasedDeduplication).                                             *)
EnqueueSqs(o, e) ==
    /\ kind = "sqs"
    /\ \/ queue' = [queue EXCEPT ![o] = Append(@, [event |-> e, id |-> 0, after |-> 0,
                                                   tries |-> 0, step |-> "queued"])]
       \/ Body(e) \in sent[o] /\ UNCHANGED queue
    /\ UNCHANGED tail

(* A name for the new promise that nothing refers to any more.              *)
NextId(o) ==
    LET named == Ids(o) \union {queue[o][k].after : k \in DOMAIN queue[o]} \union {tail[o]} IN
    CHOOSE n \in 1 .. 2 * Len(queue[o]) + 2 : n \notin named

(* enqueue of InMemoryReportingQueue: the event is chained after the tail   *)
(* of its order and becomes the new tail.                                   *)
(* Mutant: the tail is set before the previous one is read.                 *)
ChainToItself(o, e) ==
    /\ kind = "local"
    /\ queue' = [queue EXCEPT ![o] = Append(@, [event |-> e, id |-> NextId(o), after |-> NextId(o),
                                                tries |-> 0, step |-> "queued"])]
    /\ tail' = [tail EXCEPT ![o] = NextId(o)]
EnqueueLocal(o, e) ==
    /\ kind = "local"
    /\ queue' = [queue EXCEPT ![o] = Append(@, [event |-> e, id |-> NextId(o), after |-> tail[o],
                                                tries |-> 0, step |-> "queued"])]
    /\ tail' = [tail EXCEPT ![o] = NextId(o)]

Enqueue(o, e) ==
    /\ e \in outbox[o]
    /\ EnqueueSqs(o, e) \/ EnqueueLocal(o, e)
    /\ outbox' \in {[outbox EXCEPT ![o] = after] : after \in OutboxAfter(o, e)}
    /\ sent' = [sent EXCEPT ![o] = @ \union {Body(e)}]
    /\ IF Overtakes(o, e) THEN Hurt(o) ELSE UNCHANGED hurt
    /\ UNCHANGED <<kind, today, orderVars, batch, factVars, faults>>

(* The failure is logged and the request goes on.                           *)
EnqueueFails(o, e) ==
    /\ e \in outbox[o]
    /\ Fault
    /\ outbox' \in {[outbox EXCEPT ![o] = after] : after \in OutboxAfter(o, e)}
    /\ Hurt(o)
    /\ UNCHANGED <<kind, today, orderVars, sent, queue, batch, tail, factVars>>

-----------------------------------------------------------------------------
(* Delivery *)

(* A Lambda invocation takes the oldest messages of a group and nobody else *)
(* gets any of that group until it has ended.                               *)
Receive(o, n) ==
    /\ kind = "sqs" /\ batch[o] = 0
    /\ n <= BatchSize /\ n <= Len(queue[o])
    /\ \A k \in 1 .. n : queue[o][k].tries < MaxReceives
    /\ batch' = [batch EXCEPT ![o] = n]
    /\ queue' = [queue EXCEPT ![o] = [k \in DOMAIN queue[o] |->
                    IF k <= n THEN [queue[o][k] EXCEPT !.tries = @ + 1] ELSE queue[o][k]]]
    /\ UNCHANGED <<kind, today, orderVars, outbox, sent, tail, factVars, faults, hurt>>

DeadLetter(o) ==
    /\ kind = "sqs" /\ batch[o] = 0
    /\ queue[o] # <<>> /\ Head(queue[o]).tries = MaxReceives
    /\ queue' = [queue EXCEPT ![o] = Tail(@)]
    /\ Hurt(o)
    /\ UNCHANGED <<kind, today, orderVars, outbox, sent, batch, tail, factVars, faults>>

(* The for loop of the handler reaches record k; a message of the local     *)
(* queue starts when the promise it is chained to has settled.              *)
Startable(o, k) ==
    /\ queue[o][k].step = "queued"
    /\ IF kind = "sqs"
         THEN k <= batch[o] /\ \A j \in 1 .. k - 1 : queue[o][j].step \in {"ok", "failed"}
         ELSE queue[o][k].after \notin Ids(o)

SetStep(o, k, step) == queue' = [queue EXCEPT ![o][k].step = step]

(* order_placed failed earlier in this invocation, and the loop went on.    *)
SkippedPlaced(o, k) ==
    \E j \in 1 .. k - 1 : /\ queue[o][j].step = "failed"
                          /\ queue[o][j].event.type = "order_placed"

WithoutMessage(s, k) == SubSeq(s, 1, k - 1) \o SubSeq(s, k + 1, Len(s))

(* The promise of message k settles: tailsByOrder loses the order's entry   *)
(* unless something newer has been chained.                                 *)
(* Mutant: the entry is dropped whatever it holds.                          *)
DropTail(o, k) == 0
TailAfter(o, k) == IF tail[o] = queue[o][k].id THEN 0 ELSE tail[o]

Handled(o, k) ==
    IF kind = "sqs"
      THEN SetStep(o, k, "ok") /\ UNCHANGED tail
      ELSE /\ queue' = [queue EXCEPT ![o] = WithoutMessage(@, k)]
           /\ tail' = [tail EXCEPT ![o] = TailAfter(o, k)]

-----------------------------------------------------------------------------
(* The worker: processReportingEvent *)

TwoStatements == {"order_placed", "order_items_cancelled"}

(* INSERT ... ON CONFLICT DO NOTHING.                                       *)
(* Mutant: the conflict updates the row instead.                            *)
UpsertOrderFact(o, e) == [Ledger!NewFact(ReportDate(e)) EXCEPT !.day = today]
InsertOrderFact(o, e) == IF fact[o] = NoFact THEN Ledger!NewFact(ReportDate(e)) ELSE fact[o]

(* The updates are keyed on the order and find no row when it is missing.   *)
UpdateWaiter(o, e) == IF fact[o] = NoFact THEN NoFact ELSE [fact[o] EXCEPT !.waiter = e.waiter]
UpdatePaid(o)      == IF fact[o] = NoFact THEN NoFact ELSE [fact[o] EXCEPT !.paid = TRUE]

(* GREATEST(..., 0).  Mutant: the floor is missing.                         *)
SubtractUnfloored(o, e) ==
    IF fact[o] = NoFact THEN NoFact
    ELSE [fact[o] EXCEPT !.gross = @ - Ledger!Value[e.items],
                         !.count = @ - Ledger!Count[e.items],
                         !.cancelled = @ + Ledger!Value[e.items],
                         !.cancelledCount = @ + Ledger!Count[e.items]]
ApplyCancellation(o, e) ==
    IF fact[o] = NoFact THEN NoFact
    ELSE [fact[o] EXCEPT !.gross = Ledger!Minus(@, Ledger!Value[e.items]),
                         !.count = Ledger!Minus(@, Ledger!Count[e.items]),
                         !.cancelled = @ + Ledger!Value[e.items],
                         !.cancelledCount = @ + Ledger!Count[e.items]]

FirstStatement(o, e) ==
    CASE e.type = "order_placed"          -> InsertOrderFact(o, e)
      [] e.type = "order_waiter_assigned" -> UpdateWaiter(o, e)
      [] e.type = "order_paid"            -> UpdatePaid(o)
      [] e.type = "order_items_cancelled" -> ApplyCancellation(o, e)

(* The item rows refer to the order's row; placed items are inserted unless *)
(* they are there, cancelled ones deleted.                                  *)
(* Mutant: the breakdowns keep counting what was cancelled.                 *)
KeepCancelled(o, e) == lines[o] \union (IF e.type = "order_placed" THEN e.items ELSE {})
SecondStatement(o, e) ==
    IF e.type = "order_placed" THEN lines[o] \union e.items ELSE lines[o] \ e.items

First(o, k) ==
    LET e == queue[o][k].event IN
    /\ Startable(o, k)
    /\ fact' = [fact EXCEPT ![o] = FirstStatement(o, e)]
    /\ IF e.type \in TwoStatements
         THEN SetStep(o, k, "second") /\ UNCHANGED tail
         ELSE Handled(o, k)
    /\ IF SkippedPlaced(o, k) THEN Hurt(o) ELSE UNCHANGED hurt
    /\ UNCHANGED <<kind, today, orderVars, outbox, sent, batch, lines, faults>>

Second(o, k) ==
    /\ queue[o][k].step = "second"
    /\ lines' = [lines EXCEPT ![o] = SecondStatement(o, queue[o][k].event)]
    /\ Handled(o, k)
    /\ UNCHANGED <<kind, today, orderVars, outbox, sent, batch, fact, faults, hurt>>

(* A statement fails.  The Lambda handler notes the record and goes on with *)
(* the next; the local queue waits and tries again, MAX_ATTEMPTS in all.    *)
(* A cancellation that fails after its first statement will be subtracted   *)
(* again.                                                                   *)
Fail(o, k) ==
    LET m == queue[o][k]
        gaveUp == kind = "local" /\ m.tries + 1 >= MaxAttempts IN
    /\ Startable(o, k) \/ m.step = "second"
    /\ Fault
    /\ CASE kind = "sqs" -> SetStep(o, k, "failed") /\ UNCHANGED tail
         [] gaveUp       -> Handled(o, k)
         [] OTHER        -> /\ queue' = [queue EXCEPT ![o][k].step = "queued", ![o][k].tries = @ + 1]
                            /\ UNCHANGED tail
    /\ IF gaveUp \/ (m.step = "second" /\ m.event.type = "order_items_cancelled")
         THEN Hurt(o) ELSE UNCHANGED hurt
    /\ UNCHANGED <<kind, today, orderVars, outbox, sent, batch, factVars>>

(* The numbers of a finite set from the smallest to the largest.            *)
Increasing(S) ==
    CHOOSE f \in [1 .. Cardinality(S) -> S] : \A m, n \in 1 .. Cardinality(S) : m < n => f[m] < f[n]

(* batchItemFailures: the queue deletes what succeeded and keeps the rest.  *)
(* Mutant: the whole batch is deleted whatever failed.                      *)
DropBatch(o) == SubSeq(queue[o], batch[o] + 1, Len(queue[o]))
KeepFailed(o) ==
    LET kept == {k \in DOMAIN queue[o] : queue[o][k].step # "ok"}
        nth  == Increasing(kept) IN
    [n \in 1 .. Cardinality(kept) |-> [queue[o][nth[n]] EXCEPT !.step = "queued"]]

EndBatch(o) ==
    /\ batch[o] > 0
    /\ \A k \in 1 .. batch[o] : queue[o][k].step \in {"ok", "failed"}
    /\ batch' = [batch EXCEPT ![o] = 0]
    /\ queue' = [queue EXCEPT ![o] = KeepFailed(o)]
    /\ UNCHANGED <<kind, today, orderVars, outbox, sent, tail, factVars, faults, hurt>>

(* The invocation times out or dies: everything it held is delivered again, *)
(* the records it had finished included.                                    *)
Crash(o) ==
    /\ batch[o] > 0
    /\ Fault
    /\ batch' = [batch EXCEPT ![o] = 0]
    /\ queue' = [queue EXCEPT ![o] = [k \in DOMAIN @ |-> [@[k] EXCEPT !.step = "queued"]]]
    /\ IF \E k \in 1 .. batch[o] : /\ queue[o][k].event.type = "order_items_cancelled"
                                   /\ queue[o][k].step \in {"second", "ok"}
         THEN Hurt(o) ELSE UNCHANGED hurt
    /\ UNCHANGED <<kind, today, orderVars, outbox, sent, tail, factVars>>

-----------------------------------------------------------------------------
(* The reports: sums over the fact rows of the days from .. to *)

(* dateRangeSchema *)
MaxRangeDays == 366
ValidRange(from, to) == from <= to /\ to - from < MaxRangeDays

InRange(from, to) == {o \in Order : fact[o] # NoFact /\ fact[o].day \in from .. to}

Gross(orders) == SumFunction([o \in orders |-> fact[o].gross])
PaidOf(orders) == {o \in orders : fact[o].paid}

Totals(from, to) ==
    LET rows == InRange(from, to) IN
    [gross  |-> Gross(rows),
     paid   |-> Gross(PaidOf(rows)),
     unpaid |-> Gross(rows) - Gross(PaidOf(rows)),
     orders |-> Cardinality(rows),
     items  |-> SumFunction([o \in rows |-> fact[o].count])]

TodaySummary == Totals(today, today)

Bucket(rows) == [gross |-> Gross(rows), paid |-> Gross(PaidOf(rows)), orders |-> Cardinality(rows)]

(* Every day of the range has a bucket, a day without sales an empty one.   *)
RevenueByDay(from, to) == [d \in from .. to |-> Bucket(InRange(d, d))]

Breakdown(rows, KeyOf(_)) ==
    [key \in {KeyOf(o) : o \in rows} |-> Bucket({o \in rows : KeyOf(o) = key})]
ByWaiter(from, to) == Breakdown(InRange(from, to), LAMBDA o : fact[o].waiter)
ByTable(from, to)  == Breakdown(InRange(from, to), LAMBDA o : TableOf[o])

(* Item rows of the range; the reports join each to its order's row.        *)
ItemRows(from, to) == {r \in Order \X Item : r[1] \in InRange(from, to) /\ r[2] \in lines[r[1]]}
LineValue(rows) == SumFunction([r \in rows |-> Amount[r[2]]])
ItemBucket(rows) ==
    [quantity |-> SumFunction([r \in rows |-> Quantity[r[2]]]),
     gross    |-> LineValue(rows),
     paid     |-> LineValue({r \in rows : fact[r[1]].paid}),
     orders   |-> Cardinality({r[1] : r \in rows})]
ItemBreakdown(rows, KeyOf(_)) ==
    [key \in {KeyOf(r) : r \in rows} |-> ItemBucket({r \in rows : KeyOf(r) = key})]
ByMenuItem(from, to) == ItemBreakdown(ItemRows(from, to), LAMBDA r : r[2])
ByCategory(from, to) == ItemBreakdown(ItemRows(from, to), LAMBDA r : CategoryOf[r[2]])

BreakdownBy(dimension, from, to) ==
    CASE dimension = "menu_item" -> ByMenuItem(from, to)
      [] dimension = "category"  -> ByCategory(from, to)
      [] dimension = "waiter"    -> ByWaiter(from, to)
      [] dimension = "table"     -> ByTable(from, to)

(* The raw export asks for one row more than it may have, to find out       *)
(* whether there are too many.                                              *)
Limited(from, to, n) ==
    LET rows == ItemRows(from, to) IN
    IF Cardinality(rows) <= n THEN {rows} ELSE kSubset(n, rows)

(* Mutant: it asks for just as many.                                        *)
LimitAtCap == MaxRawRows
RawLimit == MaxRawRows + 1
ExportOrderItems(from, to) ==
    {[refused |-> Cardinality(rows) > MaxRawRows, rows |-> rows] : rows \in Limited(from, to, RawLimit)}

(* A CSV file of one breakdown, or of the raw rows.                         *)
RenderExport(from, to, dataset) ==
    IF dataset \in Dimensions THEN {BreakdownBy(dataset, from, to)} ELSE ExportOrderItems(from, to)

-----------------------------------------------------------------------------

Producers(o) ==
    \/ o \in Active /\ Place(o)
    \/ o \in Active /\ Pay(o)
    \/ o \in Active /\ \E items \in SUBSET Item : Cancel(o, items)
    \/ o \in Active /\ \E i \in Item : Revive(o, i)
    \/ \E e \in outbox[o] : Enqueue(o, e) \/ EnqueueFails(o, e)

Deliver(o) ==
    \/ \E n \in 1 .. BatchSize : Receive(o, n)
    \/ DeadLetter(o)
    \/ \E k \in DOMAIN queue[o] : First(o, k) \/ Second(o, k)
    \/ EndBatch(o)

Misfortune(o) == Crash(o) \/ \E k \in DOMAIN queue[o] : Fail(o, k)

Next == NextDay \/ (\E o \in Order : Producers(o) \/ Deliver(o) \/ Misfortune(o))

Spec == Init /\ [][Next]_vars

(* The event source mapping keeps polling and an invocation, or a promise,  *)
(* keeps running; that requests come is not assumed.                        *)
FairSpec == Spec /\ \A o \in Order : WF_vars(Deliver(o))

-----------------------------------------------------------------------------
(* Properties *)

TypeOK ==
    /\ kind \in {"sqs", "local"}
    /\ today \in Day
    /\ placed \in [Order -> Day \union {None}]
    /\ live \in [Order -> SUBSET Item]
    /\ payments \in [Order -> 0 .. MaxRequests]
    /\ asked \in [Order -> 0 .. MaxRequests]
    /\ \A o \in Order : outbox[o] \subseteq Event /\ sent[o] \subseteq Event
    /\ \A o \in Order : \A k \in DOMAIN queue[o] : queue[o][k] \in Message
    /\ \A o \in Order : batch[o] \in 0 .. Len(queue[o])
    /\ tail \in [Order -> Nat]
    /\ fact \in [Order -> FactRow \union {NoFact}]
    /\ lines \in [Order -> SUBSET Item]
    /\ faults \in 0 .. MaxFaults
    /\ hurt \subseteq Order

Settled(o) == outbox[o] = {} /\ queue[o] = <<>>

(* When everything an order's requests enqueued has been handled, its two   *)
(* facts tell the truth: value and quantities of the lines that were not    *)
(* cancelled, the cancelled value beside it, the payment, the day the order *)
(* was placed on (also when it is written after midnight), and a breakdown  *)
(* that adds up to the headline.  That survives failed statements, crashed  *)
(* invocations and redelivered batches, except for the mishaps that `hurt`  *)
(* records: a lost event, an event enqueued before order_placed was, one    *)
(* handled after order_placed failed in the same batch, a cancellation that *)
(* is applied twice, and a cancelled line taken back.                       *)
FactsTellTheTruth ==
    \A o \in Order : Settled(o) /\ o \notin hurt /\ placed[o] # None =>
        /\ fact[o] # NoFact
        /\ fact[o].gross = Ledger!Value[live[o]]
        /\ fact[o].count = Ledger!Count[live[o]]
        /\ fact[o].cancelled = Ledger!Value[Item \ live[o]]
        /\ fact[o].paid = (payments[o] > 0)
        /\ fact[o].day = placed[o]
        /\ lines[o] = live[o]

(* The events of one order are handled one after the other: none is between *)
(* its two statements while an earlier one still waits, for its next        *)
(* attempt or for its second statement.  tailsByOrder does in memory what   *)
(* the message group does in production.                                    *)
OneAtATime ==
    \A o \in Order : \A j, k \in DOMAIN queue[o] :
        j < k /\ queue[o][k].step = "second" => queue[o][j].step \in {"ok", "failed"}

(* What the operational tables say of the orders placed in a range.         *)
Sold(from, to) == {o \in Order : placed[o] # None /\ placed[o] \in from .. to}
SoldLines(from, to) == {r \in Order \X Item : r[1] \in Sold(from, to) /\ r[2] \in live[r[1]]}
Sales(orders) ==
    LET worth == [o \in orders |-> Ledger!Value[live[o]]]
        paid  == {o \in orders : payments[o] > 0} IN
    [gross |-> SumFunction(worth), paid |-> SumFunction([o \in paid |-> worth[o]]),
     orders |-> Cardinality(orders)]
LineSales(rows) ==
    LET paid == {r \in rows : payments[r[1]] > 0} IN
    [quantity |-> SumFunction([r \in rows |-> Quantity[r[2]]]), gross |-> LineValue(rows),
     paid |-> LineValue(paid), orders |-> Cardinality({r[1] : r \in rows})]

(* Everything has been handled, and nothing went wrong.                     *)
AllTold == \A o \in Order : placed[o] # None => Settled(o) /\ o \notin hurt

(* A report is several statements, each on a snapshot of its own, and while *)
(* the worker writes they may disagree.  Once every order's events are      *)
(* handled and none was hurt, each of them, whenever it is read, says what  *)
(* the operational tables say: the total, every day of the range with the   *)
(* last, every table, every dish and category, and the waiters together.    *)
ReportsTellTheTruth ==
    AllTold =>
        \A from, to \in Day : ValidRange(from, to) =>
            LET sold  == Sold(from, to)
                sales == Sales(sold)
                total == Totals(from, to)
                waiters == BreakdownBy("waiter", from, to) IN
            /\ total.gross = sales.gross /\ total.paid = sales.paid /\ total.orders = sales.orders
            /\ total.items = SumFunction([o \in sold |-> Ledger!Count[live[o]]])
            /\ RevenueByDay(from, to) = [d \in from .. to |-> Sales(Sold(d, d))]
            /\ BreakdownBy("table", from, to) =
                   [t \in {TableOf[o] : o \in sold} |-> Sales({o \in sold : TableOf[o] = t})]
            /\ BreakdownBy("menu_item", from, to) =
                   [i \in UNION {live[o] : o \in sold} |->
                       LineSales({r \in SoldLines(from, to) : r[2] = i})]
            /\ BreakdownBy("category", from, to) =
                   [c \in {CategoryOf[i] : i \in UNION {live[o] : o \in sold}} |->
                       LineSales({r \in SoldLines(from, to) : CategoryOf[r[2]] = c})]
            /\ SumFunction([w \in DOMAIN waiters |-> waiters[w].gross]) = sales.gross

(* An export of the raw rows is complete or refused, never cut off.         *)
ExportCompleteOrRefused ==
    \A from, to \in Day : ValidRange(from, to) =>
        \A export \in RenderExport(from, to, None) : export.refused \/ export.rows = ItemRows(from, to)

(* The headline row keeps the promises of SalesLedger whatever is delivered *)
(* twice, late or not at all.                                               *)
KeepsLedger == Ledger!Spec

(* No event waits for ever: it is handled, dropped after its attempts, or   *)
(* moved to the dead-letter queue, and the rest of its order follows.       *)
QueuesDrain == \A o \in Order : []<>(queue[o] = <<>>)

(* "Every write is idempotent -- ... a redelivered event must never         *)
(* double-count": no more value is moved to the cancelled column than was   *)
(* cancelled.                                                               *)
NoDoubleCount ==
    \A o \in Order : fact[o] # NoFact => fact[o].cancelled <= Ledger!Value[Item \ live[o]]
=============================================================================
