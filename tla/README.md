# A TLA+ model of qr-ordering

qr-ordering lets the customers of a restaurant order from a QR code on their
table. The backend (`src/src`) is an Express application that runs as several
stateless processes (or Lambdas) over one PostgreSQL database; every operation
is an HTTP request made of a few SQL transactions at READ COMMITTED, followed
by enqueues and websocket broadcasts. What can go wrong is therefore what
happens *between* the statements of one request, and that is what the modules
here are about.

## Inventory

| Component | Source | State | Operations | Hard because | Modelled in |
|---|---|---|---|---|---|
| Order items, cancellation | `modules/orderItems` | `order_item.status`, `order_item_status_audit` | station tap, admin override, cancel by customer or staff | several transactions on one order's rows, locked row by row; what follows the commit may fail | `OrderLifecycle` |
| Orders: payment, completion | `modules/orders` | `order.payment_status`, `order_receipt` | mark paid, mint and send receipt, completion check, close room | payment and last serve race; payments are repeated | `OrderLifecycle` |
| Tables, sessions, assignment | `modules/tables`, `orders.service` (placing) | `table`, `table_session`, `order` | scan, order, staff order, round robin, direct assignment, call, acknowledge, close | check and update in different transactions, stale reads passed from one to the next | `Floor` |
| Admin: tables, staff | `modules/admin`, `modules/staff` | `table.removed_at`, `qr_token`, `staff_user` | handoff, remove, new code, role change, delete | staff and tables change under running requests; checks without locks | `Floor`, `Accounts` |
| Receipts | `modules/receipts`, `ReceiptPage.tsx` | `order_receipt`: hash, expiry, attempts | verify, view, reissue | attempts counted in one statement and judged by another | `ReceiptLinks`, `Messages` |
| Reporting events and facts | `modules/reports/events`, `lambda-reporting-worker` | SQS FIFO queue or chain of promises, `report_*_fact` | placed, waiter assigned, paid, cancelled | at-least-once delivery, order within a group, two statements per event | `Reporting`, `SalesLedger` |
| Reports | `modules/reports` | none | totals, series, breakdowns, raw export | several statements on connections of their own, limits at their boundary | `Reporting` |
| Notifications | `modules/notifications`, `webhookRoutes`, `lambda-notification-worker` | queue, `notification_log` | choose provider and template, send, log, delivery callback | redelivery, lost answers, callbacks out of order | `Notifications`, `Messages` |
| Realtime rooms, tracking and staff pages | `realtime`, `lambda-websocket`, `useRealtime.ts`, the pages | rooms to connections; what each page shows | join, broadcast, closeRoom, load, press | lost posts and events, requests that fail before they have told anybody, answers that overtake each other | `Realtime` |
| Menu | `modules/menu`, `menuCategories.service`, `import-price-list.ts`, `AdminMenuTab.tsx`, `OrderPage.tsx` | category tree, items, cart, order lines | edit, import, regroup, browse, order | depth and emptiness checked without a lock, edits made from old copies, a page read by two queries | `Menu`, `BackOffice` |
| Accounts and platform administration | `modules/staff`, `modules/platformAdmin`, `lib/jwt.ts`, `frontend/src/auth` | `staff_user.role`, `restaurant.mode`, tokens, a tab's two sessions | login, edit staff, mode, reset, view as admin | tokens that outlive a role, requests of an earlier session answered late, a reset that races going live | `Accounts`, `BackOffice` |
| Web push, branding, rendering, infrastructure | | none, or one row at a time | best-effort sends, single inserts | | see "Not modelled" |

Components interact through database rows (a session id or an assignee read in
one transaction and used in the next), through the two queues (placing, taps,
payments and cancellations enqueue; workers consume), and through broadcasts
that swallow their errors. `PROJECT.json` lists every hazard at its line, with
the properties that would catch it.

## Plan

Done, in this order: `OrderLifecycle` (the order is what everything else hangs
on), `Floor` (who sits where, who serves whom), `SalesLedger` and `Reporting`
(the abstract specification and its implementation), `Notifications`,
`ReceiptLinks` and their composition `Messages`, `Realtime`, `Menu`, `Accounts`
and their composition `BackOffice`; then proofs of every safety property of
all of them and of the refinement.

Left: abstract specifications for other components than reporting (the life of an
item as its customer sees it, above `OrderLifecycle`; the occupation of a table,
above `Floor`), and the hazards that `PROJECT.json` lists without a property.

## Modules

`OrderLifecycle.tla` models one order from its insertion. Variables: the item
rows, their audit rows, the payment status, the receipt row, who holds which
item row `FOR UPDATE`, and for each request a control state and its locals;
the notifications, receipt messages, completion broadcasts and reporting
events it has emitted are counted or recorded, and `lateCancel` and `unchecked` are
history variables. Transactions of other orders touch none of these rows, so one order
is enough.

| Code | Actions |
|---|---|
| `updateOrderItemStatus` / `transitionOrderItemStatus` | `TapBegin`, `Tap` or `TapRefused`, `Commit`, then `NotifyReady` or `CheckComplete` |
| `cancelOrderAsCustomer`, `cancelOrderAsStaff` / `cancelOrderItems` | `CancelBegin` (the unlocked read of the payment), `CancelLockRow` for each row, `CancelDecide` or `CancelRefused`, `Commit`, `Announce` |
| PostgreSQL's deadlock detection | `DeadlockAbort` |
| `markOrderPaid` | `Pay`, `ReportPaid`, `IssueReceipt` or `NoReceipt`, `SendReceipt`, `CheckComplete`, `CloseRoom` |
| errors, before the commit (`catch`, rollback) and after it; the end of the process | `Fail` |

An action ends where another request can get in between. A read that follows a
lock in the same transaction is merged with it when taking the lock later would
make no difference (the first-ready count); the update, the audit rows and the
commit are one action, because nobody sees them before the commit. A cancellation
locks the rows of its order one by one in any order, as its `SELECT ... FOR UPDATE`
has no `ORDER BY`: two of them can each hold a row and wait for the other's, until
one is made the victim. A request may fail at any point. After the commit nothing
makes up for what it has not done yet, and `unchecked` records that a completion
check was among it (the reads before that check, of the table's waiter and of the
tracked order, are not caught).

`Floor.tla` models the tables of one restaurant. Session and order rows carry
the name of the request that inserts them, so no bound on ids is needed.
Locks are per row of `table` and `table_session`; an insert into `order` waits
for a lock on its session, as its foreign key does; an assignment to a deleted
waiter fails and rolls back, and deleting a waiter clears their tables, as the
foreign key with `ON DELETE SET NULL` does.

| Code | Actions |
|---|---|
| `resolveTableForOrdering`, `placeOrder`, `placeStaffOrder` | `Resolve` or `StaffOrder`, `JoinSession`, or `NoSession` and `OpenSession`, `InsertOrder` or `RejectItems`, then the assignment |
| `assignNextWaiterRoundRobin`, `assignWaiterDirectly` | `NothingToAssign`, or `PickWaiter` and `AssignPicked`; `AssignDirectly` |
| call-waiter route, `acknowledgeTableCalling` | `CallWaiter`, the assignment, `MarkCalling`; `Acknowledge` |
| `closeTableSession` | `CloseLock`, `CloseCount`, `CloseWrite` |
| `assignWaiterToTable` | `HandoffLock`, `HandoffWrite` |
| `removeTable`, `regenerateQrToken` | `RetireCheck`, `Remove`, `Regenerate` |
| `markOrderAsPaid`, `updateStaffUser`, `deleteStaffUser` | `MarkPaid`, `SetRole`, `DeleteStaff` |
| the `catch` blocks | `Rollback` |

Left out of `Floor`: which waiter the round robin prefers (any of them may be
picked, so what holds does not depend on it), creation of tables and staff, and
everything a request merely sends.

`SalesLedger.tla` is the abstract specification of the headline facts: an order
is booked once, then value only moves from sales to cancelled, a waiter may be
attributed, and a payment is never taken back. `Reporting.tla` is what runs.
It has both queues, chosen once as `getReportingQueue` does.

| Code | Actions |
|---|---|
| enqueuing parts of `placeOrder`, `markOrderPaid`, the cancellations | `Place`, `Pay`, `Cancel`, then `Enqueue` or `EnqueueFails` |
| a tap on a cancelled item, which tells the reports nothing | `Revive` |
| `SqsReportingQueue`, queue settings | `EnqueueSqs` (with content deduplication), `Receive`, `EndBatch`, `DeadLetter`, `Crash` |
| `InMemoryReportingQueue` | `EnqueueLocal` (with `tailsByOrder`), `Handled`, `Fail` with its attempts |
| `processReportingEvent` | `First`, `Second`: one action for each statement, since nothing makes them a transaction |
| `reports.service`, `reports.repository` | operators over the facts: `Totals`, `RevenueByDay`, `BreakdownBy`, `ExportOrderItems` |

`Cancel` may follow a payment, because `cancelOrderItems` reads the payment before it
locks anything. A report is several statements on connections of their own; each
operator is one of them, and no property compares two of them on one state while the
worker writes. `hurt` records orders to which one of five mishaps happened, after
which the code does leave the facts wrong: an event that was lost, one that was
enqueued before order_placed, one handled after order_placed failed in its batch, a
cancellation that was subtracted twice, and a cancelled line that was taken back.

`Notifications.tla` models an order's messages: the four ways it can be
deployed decide provider and template (`ProviderFor`, `Templates`), jobs are
queued, taken, sent, logged and acknowledged in steps of their own
(`Take`, `Send`, `Log`, `Settle`), a worker may crash between any two of them,
an answer may be lost, a job is redelivered or ends in the dead-letter queue,
and Meta's callbacks (`Callback`) come in any order and number. An attempt is a
job and the number of its delivery; a row of the log belongs to one attempt.
`ReceiptLinks.tla` models the row behind a receipt link and the pages that answer
its challenge; a token is the number of its issue. `Messages.tla` composes the
two: a payment issues the link its message carries, staff reissue it, and a
page can be opened only with a link that a provider has accepted.

`Realtime.tla` models one table with one party and one order: the opening of the
session by a scan, the order placed by the customer or taken by a waiter, the rooms,
every broadcast a request makes after its commit as a step, and five kinds of page with
what they show, the loads they have asked for and the answers on their way. What a
request has still to do is a list of steps (`todo`); a broadcast that no open page
can be looking for is passed over (`GoOn`), as it changes nothing.
Transactions are one step here; `OrderLifecycle` and `Floor` look inside. Any post of
a broadcast may be lost (`BroadcastStep`, `AnnounceStep`), closing a room may fail for
some of its connections (`CloseStep`), the receipt may not be issued (`ReceiptStep`),
and a request may end with its steps undone (`Abandon`). `blind` and `outdated` record
pages that cannot know better: changes that are broadcast to nobody who shows them
(`NotTold`), events missed while not joined, lost posts, broadcasts that a failed
request never made, failed loads, answers overtaken.

| Code | Actions |
|---|---|
| `useRealtime`, `load` of each page | `OpenTrack`, `Join`, `Drop`, `Read`, `LoadFails`, `Show` |
| a page's buttons (`Offers`), and what the routes refuse (`Accepts`, `RoleAllows`, `OwnTable`) | `Press`, `RefusedCancel` |
| the same requests from other devices, and those no page here sends | `Elsewhere` |
| `broadcastEvent`, `broadcastToTableWaiter`, `dynamoBroadcast` | `BroadcastStep` |
| `assignNextWaiterRoundRobin`, `assignWaiterDirectly` | `AssignStep` |
| `issueAndSendReceipt`, `markTableCalling` | `ReceiptStep`, `CallStep` |
| `finalizeOrderIfComplete`, `closeRoom` | `FinalizeStep`, `AnnounceStep`, `CloseStep` |
| the response, or an error after the commit | `Reply`, `Abandon` |

`Menu.tla` models the category tree and items with one step for each statement of
a request, because no check locks what it has read: `AssertUsableParent`,
`CountChildren`, `InsertCategory`, `UpdateCategory`, `DeleteCategory`, the import
(`ImportCount`, `ImportWrite`) of the rows that `KeptRows` takes from a price list
(`Sheets`), and the regrouping: `RegroupRead` decides on a plan of main categories to
make and sub-categories to move, `RegroupWrite` does all of it in one transaction or
`StatementFails` undoes it. Items and categories are edited from what an admin's page
loaded earlier (`had`). The customer's page is read by two queries, in either order
(`ReadCategories`, `ReadItems`), and goes on with `Pick`, `Submit`, `PriceOrder` and
`InsertOrder`. `torn`, `doubled` and `repriced` are history variables: a third level
that an overtaken request or a regrouping has made, two imports that overlapped, prices
changed while the page was open.

`Accounts.tla` models staff accounts, tokens with an expiry, the staff and the
platform session of each browser tab (one request of a tab is followed at a
time; its answer may come after a logout and a new login), and mode changes, the
read-only view and the reset of the trading history. A token is not checked against
its account (`Refused`); `ceased` dates when an account stopped being an admin's.
`BackOffice.tla` composes the two: placing an order adds to the history (`Trade`), and
a reset takes the order and frees the dishes that had been ordered (`ResetClearsLines`).

Each `MC` module instantiates its specification for TLC and defines symmetry
sets and configurations.

| Proof module | About |
|---|---|
| `OrderLifecycleProofs` | types, locks, the audit trail and the two action properties of `OrderLifecycle` |
| `OrderOutcomeProofs` | its other invariants: cancellation, receipt, completion, sales |
| `FloorProofs` | every property of `Floor` |
| `ReportingProofs` | every safety property of `Reporting`, and that it implements `SalesLedger` |
| `MessagesProofs` | every safety property of `Messages` |
| `RealtimeProofs` | every property of `Realtime` |
| `AccountsProofs` | accounts and sessions, within `BackOffice` |
| `MenuProofs` | the menu, the ordering page and the types of `BackOffice`; rests on `AccountsProofs` |

## Runs

| Run | Instance | Shows |
|---|---|---|
| `order_lifecycle` | 2 items, 3 requests | `AuditChain`, `ForwardOnly`, `ServedNotCancelled`, `CustomerCancelsUntouched`, `ReceiptOnce`, `AnnouncedStaysComplete`, `CompletionNotMissed`, `SalesNotUnderstated` |
| `order_liveness` | 3 items, 2 requests | `RequestsFinish` |
| `order_ready_twice` | 2 items, 2 requests | `ReadyNoticeOnce` fails, see below |
| `order_revived` | 2 items, 2 requests | `CancelledIsTerminal` fails |
| `floor` | 2 tables, 2 waiters, 3 requests, any number of staff edits, payments and acknowledgements | `OneActiveSession`, `CloseOnlyPaid`, `CloserMayClose`, `FirstCallerWins`, `AssigneeExists` |
| `floor_direct_assign` | 1 table, 2 waiters, 2 requests | `DirectAssignNoop` fails |
| `floor_retire` | 1 table, 2 waiters, 2 requests | `RetiredTableIdle` fails |
| `reporting` | a historic and a new order, 2 lines, 2 days, 2 requests, 2 faults, batches of 2, 2 receives, 2 attempts | `FactsTellTheTruth`, `OneAtATime`, `ReportsTellTheTruth`, `ExportCompleteOrRefused`, the refinement `KeepsLedger`, `QueuesDrain` |
| `reporting_redelivery` | the same, 1 request | `NoDoubleCount` fails |
| `messages` | 4 deployments, 1 job slot, 2 workers, 2 tries, 1 mishap, 3 reports, 2 pages, 2 links, a cap of 2 | `StatusIsFurthest`, `NothingVanishes`, `OfferedChannelsSend`, `GuessesBounded`, `BurntUntilReissued`, `JobsEnd` |
| `realtime` | a dish and a service, 6 pages of 5 kinds, one open at a time, 2 requests, 2 changes, 1 failure, 2 loads at once | `ScreensCatchUp`, `OffersAccepted`, `CutOffOnlyTold` |
| `back_office` | 3 categories, 2 items, 2 editors, 2 prices, a price list of 2 rows under 2 headings; 2 staff, 1 tab, 1 tick, 2 writes | `MenuIsWhole`, `ChargedAsShown`, `FormerAdminsStop`, `HistoryLeavesOnlyInTest`, `SessionsEndForCause` |

Every passing run also checks its module's `TypeOK`, except `order_liveness`, which
asks one question of a second instance of `OrderLifecycle`.

What the code leaves open, the properties except by name, and each exception is a
hazard listed in `PROJECT.json` with the reason:

| Property | Excepted |
|---|---|
| `CompletionNotMissed` | a request that failed after its commit, before its check (`unchecked`); a cancellation that committed after the payment (`lateCancel`) |
| `AnnouncedStaysComplete` | items moved on from a terminal status afterwards, which their audit trail shows |
| `FactsTellTheTruth`, `ReportsTellTheTruth` | the five mishaps of `hurt` |
| `ScreensCatchUp` | `blind` until the next event, `outdated` until the next answer |
| `OffersAccepted` | a customer's cancel button on a paid order; a waiter's on one with nothing left to cancel; closing a table with an unpaid order; starting an idle table that is another waiter's; resending a receipt that is not issued yet or could not be |
| `CutOffOnlyTold` | pages that joined after the announcement or to which its post failed |
| `MenuIsWhole` | a third level from a request that another edit had overtaken, or from a regrouping (`torn`); categories changed between a page's two queries; two imports that overlapped (`doubled`) |
| `ChargedAsShown` | items repriced while the page was open |
| `FormerAdminsStop` | nothing, but for as long as a token lives a former admin may go on, and two admins may remove one another so that none is left |

Bounds. In `OrderLifecycle` and `Floor` a request runs once; the number of
requests bounds everything else, so no counter needs a cap. Each hazard listed
needs two racing requests and at most one that prepares the state, hence three.
Two items tell the item an operation is about from the rest of the order; the liveness
run has a third, so that two cancellations can wait for one another in more than one
place.

In `reporting` only the new order gets requests, the historic one is there for the sums.
Two faults are what a dead letter (two receives) or an exhausted local event (two
attempts) takes, and a batch of two is what it takes to go on after a failed record. Two
days put an order's events on either side of midnight; an order that is placed on the
second day is there for the day series, and nothing more is asked of it. A cap of one
raw row puts two lines exactly one over it.

In `messages` one job slot is reused, so that messages follow one another; two
jobs of one order share nothing but the log. Delivery reports are followed for
messages without a link, and ready messages until payment; one mishap is any
one crash, loss or failure at any point. Two pages are what racing answers need.

In `realtime` one page is open at a time: pages affect one another only through
the server, where anybody may act at any time (`Elsewhere`). One failure is any one
lost connection, post, load or request.

In `back_office` the variable `part` of `MCBackOffice` chooses at first what changes:
categories, items with the ordering page, or accounts. The code has no such separation,
and neither has `BackOffice`: the theorems about `Spec` hold without it, the run alone
leaves out category edits that meet item edits, and account changes that meet either.
With categories, the tree is edited under one item, which may be in any category, or is
imported; one of the two editors at most is at work while the page loads; a regrouping
moves at most two categories under existing ones or a new one; nothing follows once a
third level has been made, because the property excepts it from then on. With items the
customer orders while prices, availability and rows change, and a reset may follow. With
accounts there is one role beside admin, one tab, and two writes of accounts and modes,
enough to remove or demote one admin and then the other from successive sessions. Two
tabs at once are too many states for a run; the theorems of `AccountsProofs` hold for
any number of tabs.

Symmetry is used where the values are only compared for equality: items,
tables, waiters and requests of `OrderLifecycle` and `Floor`, request slots of
`Realtime`, categories, items, editors and staff of `BackOffice`. Runs with a
liveness property do without.

Fairness. `FairSpec` of `OrderLifecycle` assumes that a request that has begun
keeps being scheduled (`WF` of its own steps): Node runs its continuations, and
PostgreSQL grants a lock once it is free and breaks a circle of waiting
transactions. That of `Reporting` assumes that each
order's deliveries go on: the event source mapping polls, invocations and
promises run. That of `Messages` assumes the same of workers and of the queue's
redrive policy. That requests arrive, customers read or anything fails is never
assumed. A row lock that is never released, or a circle that nobody breaks, would make a
request wait for ever, which is what `RequestsFinish` excludes.

Deadlock is checked in the runs of `OrderLifecycle` and `Floor`, where
`Quiescent` is the only stutter and is enabled only when all requests have been
answered. The other systems really stop once the bounded requests, changes and
mishaps are spent, and their runs say so.

### Where the code and its documentation differ

* `README.md:111`: "`order_ready` fires exactly once per order". Two items
  that become ready at the same moment both count zero other ready items
  (`orderItems.repository.ts:234`), and both notify.
* `orders.repository.ts:143`: "'cancelled' is terminal like 'served'".
  `STATUS_ORDER.indexOf('cancelled')` is -1, so a station's tap takes a
  cancelled item back onto the line (`orderItems.repository.ts:224`).
* `tables.repository.ts:195`: direct assignment is "a no-op if already
  assigned (to anyone)". The `UPDATE` is unconditional, and its caller decided
  on a read made before the order was inserted.
* `admin.service.ts:111`: a new code "can never orphan a customer mid-order".
  The check for an active session and the update are not in one transaction.
* `reportingEvents.repository.ts:5`: "Every write is idempotent", "a redelivered
  event must never double-count". `applyCancellationToFact` subtracts again what
  was subtracted before when its second statement failed, or the invocation
  died before the batch was acknowledged.

Seen while modelling and not made into runs: a payment that commits between the read at
`cancellation.repository.ts:85` and the row locks lets paid items be cancelled, and such
a cancellation may complete the order without anyone sending `order_complete`; an order
may be inserted into a session that was closed since (`orders.repository.ts:52`);
closing wipes `assigned_at`, so the round robin forgets who had a table last; an item
served without passing through ready silences `order_ready` for the rest of its order;
two category edits that overlap, or a regrouping, can make a third level or even a
cycle, although the migration that added `parent_id` (`1791451190597`, line 35) says
that is impossible; two admins who remove one another leave none.

## Proofs

`OrderLifecycleProofs.tla`, for any number of items and requests, from
`OrderAssumption` (an order has at least one item; the marker of a free row is
not a request), which TLC evaluates in the runs of `MCOrderLifecycle`:

* `TypeCorrect`: `[]TypeOK`.
* `RowsAlwaysHeld`, `AuditTellsAll`: `[]RowsHeld`, `[]AuditChain`.
* `ServedStaysOnBill`, `OnlyForward`: the action properties
  `ServedNotCancelled` and `ForwardOnly`.

The inductive invariant is `IInv == TypeOK /\ JobFits /\ RowsHeld /\ AuditChain /\
WriteAllowed`. `AuditChain` alone is not inductive: that the audit row a commit appends
starts where the trail ends follows only because the status read under lock is still the
item's status, which is `RowsHeld`. `RowsHeld` in turn holds because a lock is granted
only on free rows, a cancellation decides only when it has every row, and a commit
writes only rows it holds. `WriteAllowed` carries the check made when the rows were read
(a tap was forward or an override, a cancelled item was not served) to the commit, where
the two action properties need it; lemma `StatusStep` says that every change of a status
is such a commit. Steps that write no item, give no lock to anybody else and leave other
requests alone are `Calm` (a failure is one of them: it only frees what is its own), and
are handled once.

`OrderOutcomeProofs.tla` builds on it, with one strengthening for each property:

* `CustomersCancelUntouched`: a customer's cancellation that waits to write
  holds every row of the order (`RowsHeld`), so what it saw still stands.
* `OneReceipt` (`ReceiptInv`): the unique receipt row lets one payment at most
  reach the step that sends, and only while nothing has been sent.
* `AnnouncedIsComplete` (`ClosingInv`): the completion check is handed on to the
  broadcast, and an item that leaves a terminal status meanwhile leaves an audit row.
* `CompletionIsNotMissed`: whichever of payment and last serve commits second
  has its own check before it, or has failed and left `unchecked`.
* `SalesAreNotUnderstated` (`SalesInv`): an inequality of cardinalities. A commit
  adds one audit row and one pending cancellation for each item, and announcing
  turns a pending cancellation into a report.

`FloorProofs.tla`, from `FloorAssumption` and `NoneIsNoRow` (names of tables,
staff, requests and rows are distinct from the markers): `TypeCorrect`,
`OneParty`, `WaiterExists`, `StillMayClose`, `ClosedPaid`, `FirstClaimStands` —
every property of run `floor`. The inductive invariant is `IInv == TypeOK /\
OrdersSeated /\ OneActiveSession /\ AssigneeExists /\ \A r : Fits(r)`. `Fits(r)` is
what request r relies on: what it has read or holds locked at its place in the
code. The proof is by rely and guarantee: each step of a request establishes its own
`Fits`, and `Respects` those of all others, because it changes only rows that are
free or its own; edits by staff `Respect` everybody.

`ReportingProofs.tla`, from `ReportingAssumption` (an order has finitely many lines and
finitely many orders were there when the fact tables were created; quantities are positive;
the markers `None` and `NoFact` are no waiter, day, dimension or row). There may be any
number of orders, lines, payments, days, attempts and faults, and batches of any size.
The library's induction theorems cannot be used here; what needs induction is proved
with `Least` (a set of natural numbers has a least element).

* `ImplementsLedger`: `Spec` implies `SalesLedger`'s specification under the mapping
  `book <- fact`, `Line <- Item` (the refinement that run `reporting` checks). `LedgerInv`
  says that every event in an outbox or queue is one that a request can have sent
  (an assignment names a waiter, a cancellation names lines, a placing has a day). It has
  to follow messages through appends, removals and rebuilt batches: that what is
  left of a batch can be put in order is `AllOrderable`, that a fresh name for a promise
  exists `NextIdType`. Only `First` writes the headline row (`OneWriter`), and each
  kind of event maps to one step of `SalesLedger` or to none.
* `HandledInOrder`: `[]OneAtATime`. `TurnInv` has one form for each queue. In a
  message group (`GroupInTurn`) what is not queued belongs to the running invocation and
  everything before it has been dealt with; in a chain of promises (`ChainInTurn`) no
  name is given twice, each message waits for the one before it, and the tail is the last.
* `ReportingTypes`: `[]TypeOK`, from `FactsInv`; amounts stay natural numbers
  because of the floor in `ApplyCancellation`.
* `FactsAreTrue`: `[]FactsTellTheTruth`. `TruthInv` says of an order to which
  none of the mishaps happened (`Good`) what its facts owe to the events on their way: the
  headline row is the value of the lines that are live or whose cancellation has not
  been subtracted (`HeadlineTrue`), the item rows those that are live or not yet deleted
  (`RowsTrue`), and a payment is in the row or will be (`PaymentTrue`). This is kept because
  no line of an unhurt order is in two cancellations (`EventsApart`; a line that is taken back
  hurts its order), so that values add up, and because
  order_placed goes first (`PlacedFirst`), so that no update misses its row. It was checked
  with TLC before it was proved. `SetBack` and `Compacted` show that a failed, crashed or
  finished batch leaves it true.
* `ReportsAreTrue`: `[]ReportsTellTheTruth`. Each statement of a report is compared with what
  the operational tables say, so it rests on `TruthInv`, which makes the facts of
  every order equal to its lines and payments once everything is told (`AllIsTold`), and on
  what sums are: unique, taken in any order and split (`AddingExists`, `AddingUnique`,
  `SumTake`, `SumSplit`), and the sum of the sums of the parts by any key (`SumParts`), which
  the waiters' shares need. `BookedInv` says that only finitely many orders have a row.
* `ExportsAreWhole`: `[]ExportCompleteOrRefused`.

`MessagesProofs.tla`, from `NotificationsAssumption` of `Notifications` and
`ReceiptLinksAssumption` (finitely many pages): `MessagesTypes`,
`StatusTellsTheFurthest`, `NoMessageVanishes`, `WhatIsOfferedSends`,
`GuessesAreBounded`, `BurntStaysBurnt`. The invariant about jobs says, for each worker, what it
has done of its attempt at its place in the code (`WorkerFits`), that two workers never
have the same attempt (`OwnAttempts`), what a log row may say while its attempt goes on
(`RowFits`), and what a job that has left the queue has left in the log (`JobFits`). For the
links it is `LinkTypeOK /\ GuessesBounded`: a wrong answer moves from the pages
being judged to the counter, so their sum grows only when an answer is let in, which
needs a count below the cap.

`RealtimeProofs.tla`, from `RealtimeAssumption` (an order has an item; pages have
a kind, a station and a user): `RealtimeTypes`, `SettledScreensCatchUp`,
`UpToDateOffersAccepted`, `CutOffPagesWereTold`, for any number of pages open at
once, of requests, of items, waiters, changes and lost connections. The invariant
(`ScreensInv`) follows news from the commit to the screen: a page that is not recorded
as blind or outdated, has asked for nothing and whose rooms no request under way is
still going to tell, has the latest answer (what the server holds) as its last one, or
on its screen if none is under way (`CaughtUp`). A commit may thus change only what the
rest of its request is still going to tell (`Pending`) or what is recorded as told to
nobody; a broadcast makes every page it reaches ask again, and the others blind; a request
that fails makes those blind whom it had still to tell. For this the steps a request has
left have to be the end of a list that the code begins (`TodoFits`: an assignment or a call
is followed by the broadcasts to the admin and the waiter, an announcement by the closing
of the room). The waiter's room is looked up late, which is why `WillTell` goes by the
assignment of the moment and every change of it is recorded. `UpToDateOffersAccepted` also
needs that a page shows a screen of its kind (`ViewFits`) and that a paid order has its
receipt, is about to get it, or something failed (`ReceiptFits`);
`CutOffPagesWereTold` that after the announcement no tracking page is live (`OrderFits`).

`AccountsProofs.tla`, from `AccountsAssumption` and `NobodyHasNoToken`, within
`BackOffice`: `FormerAdminsDoStop`, `HistoryIsSafe`, `SessionsEndOnlyForCause`.
`AccountsInv` types sessions and requests and says what the checks behind a request
have left (`Fits`): a checked reset has named the right restaurant, a 401 concerns a
token that has lapsed, a view that was granted is an admin's, and tokens that have
lapsed stay so. `AccountsTypes` adds that a page is shown only to a session whose role
may see it. For `FormerAdminsDoStop` the invariant is `AuthorityOK`: every token that
is held or under way and could change accounts is that of an admin, or of somebody who
ceased to be one no earlier than its life before its end. It is kept because a token
comes from the row of the moment or from another token of the same tab (`Origins`),
and every edit that ends an admin dates it (`AuthorityKept`).

`MenuProofs.tla`, from `MenuAssumption` (`None` is no category, item or row; prices are
positive) and those of `AccountsProofs`: `BackOfficeTypes`, `MenuStaysWhole`,
`OrdersChargedAsShown`, for any number of editors, categories, items, rows, headings and
edits. That a tree is two levels deep is kept by a write because of what its request has
checked: `JobFits` says that the checks still hold when the write comes, unless another
edit has marked the request as `mixed` (`Overtaken`, `PlanKeeps`). Items are in
categories that exist, so those that a page has read are under the tabs of the tree of
that moment (`SeenWhole`, `AllGrouped`). `ListedOnce` says that no product is on the
menu twice: `KeptRows` takes no product twice from a list (`KeptOnce`), and a second
import finds a menu that is not empty. For the prices `MenuInv` says that a page shows
the menu's prices but for what is recorded as repriced (`Current`), and that the lines
of the order are the items of the cart at those prices (`LinesFit`), so that the total
is taken over the same set. `BackOfficeTypes` adds that a placed order is in the history
(`PlacedCounts`).

Every safety property of the passing runs is a theorem. Only model-checked: liveness
(`RequestsFinish`, `QueuesDrain`, `JobsEnd`), which no backend can prove. The runs that
expect a violation are TLC's alone.

## Not modelled

* Web push: best-effort sends; a subscription is one row upserted by its
  endpoint and deleted when the service says it is gone, and no other state depends
  on it. (A browser that has a subscription is never asked again, so on a
  shared device it stays with whoever came first.)
* Passwords and signatures (whoever has an account knows its password), and the
  rate limit, which counts in the memory of one process and is for development.
* VAT, PDF, CSV and XLSX rendering, labels, branding, colours, wording: layout.
* Onboarding of restaurants, creation of tables, sort order, destinations: one
  insert or update each, with nothing that relies on an earlier read.
* Reading the price list's workbook, and the check that each heading has a station; the
  import begins with its rows.
* Media links of receipts and their single use: `mintReceiptMediaUrl` has no caller.
* Networks, buckets, dashboards and deployments of `src/infra`; only the queues'
  settings, which decide redelivery, are part of the models.
