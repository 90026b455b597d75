------------------------------ MODULE Realtime ------------------------------
(***************************************************************************)
(* What the screens show: the pages of the customer, the stations, the     *)
(* waiters and the admin's floor and station boards, the rooms they join,  *)
(* the events that requests broadcast into the rooms after their commit,   *)
(* and the loads the events trigger.                                       *)
(*   src/src/realtime/, src/src/lambda-websocket.ts, the broadcasting      *)
(*   parts of orders, orderItems, cancellation and tables.service.ts,      *)
(*   src/frontend/src/hooks/useRealtime.ts and the pages that use it.      *)
(* One table with one party and one order: what happens at the table once  *)
(* that order's session is closed is not followed.  A request's            *)
(* transaction is one step here (OrderLifecycle and Floor look inside),    *)
(* the broadcasts it makes afterwards are steps of their own.              *)
(***************************************************************************)
EXTENDS Integers, Sequences, FiniteSets

CONSTANTS
    Item, DestinationOf,  \* [Item -> Station]
    Waiter, None,
    Page, KindOf,         \* [Page -> Kind]
    StationOf,            \* [Page -> Station], for pages of a station
    UserOf,               \* [Page -> Waiter], for waiter pages
    Open,                 \* which pages are open together, a set of sets
    Begin,                \* how far the order is at first, a set of [Item -> Status]
    Request,              \* bound: requests under way at the same time
    MaxChanges,           \* bound: requests that commit
    MaxDrops,             \* bound: connections, loads, posts and requests that fail
    MaxLoads              \* bound: loads of one page under way

Station == {"kitchen", "bar", "services"}
Kind == {"track", "station", "board", "waiter", "floor"}
Status == {"none", "received", "preparing", "ready", "served", "cancelled"}

(* An order has at least one line.                                          *)
ASSUME RealtimeAssumption ==
    /\ None \notin Waiter \union Page /\ Open \subseteq SUBSET Page
    /\ Item # {} /\ DestinationOf \in [Item -> Station]
    /\ KindOf \in [Page -> Kind] /\ StationOf \in [Page -> Station] /\ UserOf \in [Page -> Waiter]
    /\ Begin \subseteq [Item -> Status]
    /\ {MaxChanges, MaxDrops} \subseteq Nat /\ MaxLoads \in Nat \ {0}

VARIABLES
    item,     \* item -> status; "none" before the order is placed
    bill,     \* payment_status of the order, "none" before it is placed
    waiter,   \* assigned_waiter_id of the table
    seated,   \* the party's session is active
    calling,  \* calling_since is set
    receipt,  \* the order has a row in receipt
    request,  \* slot -> what the request has still to do, and for which page
    conn,     \* page -> its connection, see Connection
    view,     \* page -> what it shows
    asked,    \* page -> loads sent that the server has not read for yet
    answers,  \* page -> answers on their way, in the order they were read
    announced,\* history: order_complete has been broadcast
    blind,    \* history: pages something changed for since they last asked, and
              \* that were not told: not in the room then, the post failed, the
              \* request ended before it came to them, or it is a change that
              \* NotTold says is not broadcast to them
    outdated, \* history: pages whose last answer was overtaken by an older one
    changes, drops

server == <<item, bill, waiter, seated, calling, receipt>>
client == <<conn, view, asked, answers, blind, outdated>>
vars == <<item, bill, waiter, seated, calling, receipt, request, conn, view, asked, answers,
          announced, blind, outdated, changes, drops>>

(* "away": no such page is open.  "off": the customer has not opened it     *)
(* yet.  "connecting": no connection, or one whose row the index does not   *)
(* show yet.  "missed": live, but has missed the announcement that its      *)
(* order is complete: it joined later, or the post to it failed.            *)
(* "refused": the socket is open but in no room.  "done": told that the     *)
(* order is complete.                                                       *)
Connection == {"away", "off", "connecting", "live", "missed", "refused", "done"}
Opened(c) == conn[c] \notin {"away", "off"}

-----------------------------------------------------------------------------
(* Rooms *)

RoomOf(c) ==
    CASE KindOf[c] = "track"                -> <<"order", None>>
      [] KindOf[c] \in {"station", "board"} -> <<"station", StationOf[c]>>
      [] KindOf[c] = "waiter"               -> <<"waiter", UserOf[c]>>
      [] KindOf[c] = "floor"                -> <<"admin", None>>

(* RESTAURANT_ROOM knows two of the three stations.  A page always asks for *)
(* a room its user's token is good for.                                     *)
Recognised(room) == room[1] = "station" => room[2] \in {"kitchen", "bar"}

InRoom(room) == {c \in Page : RoomOf(c) = room /\ conn[c] \in {"live", "missed"}}
Outside(room) == {c \in Page : RoomOf(c) = room /\ Opened(c) /\ conn[c] \notin {"live", "missed"}}

-----------------------------------------------------------------------------
(* What a load of a page returns.  It reads in several statements; when a   *)
(* change commits between two of them, the page is told of it afterwards or *)
(* counts as blind, just as if it had read before the change.               *)
(* The waiter's page puts together the answers of two such loads, of the    *)
(* sessions and of the idle tables.                                         *)

Nothing == [nothing |-> TRUE]
Queue(d, hidden) == [i \in {j \in Item : DestinationOf[j] = d /\ item[j] \notin hidden} |-> item[i]]
Session == [item |-> item, bill |-> bill, waiter |-> waiter, calling |-> calling]

TrackedOrder == [item |-> item]
QueueForDestination(d) == [queue |-> Queue(d, {"none", "served", "cancelled"})]
StationBoard(d) == [queue |-> Queue(d, {"none", "cancelled"}), waiter |-> waiter]

(* An admin sees every active session, a waiter their own and the unclaimed. *)
WaiterView(viewers) == IF seated /\ waiter \in viewers THEN Session ELSE Nothing

(* Waiters also see every table at which no order is open, whoever has it.  *)
IdleTable == bill = "none" \/ ~seated
TableList(viewers, idle) == [listed |-> WaiterView(viewers), idle |-> idle]

Shown(c) ==
    CASE KindOf[c] = "track"   -> TrackedOrder
      [] KindOf[c] = "station" -> QueueForDestination(StationOf[c])
      [] KindOf[c] = "board"   -> StationBoard(StationOf[c])
      [] KindOf[c] = "floor"   -> TableList(Waiter \union {None}, FALSE)
      [] KindOf[c] = "waiter"  -> TableList({UserOf[c], None}, IdleTable)

Idle == [todo |-> <<>>, by |-> None, busy |-> FALSE]

Init ==
    /\ item \in Begin
    /\ bill = (IF \E i \in Item : item[i] = "none" THEN "none" ELSE "unpaid")
    /\ seated \in (IF bill = "none" THEN BOOLEAN ELSE {TRUE})
    /\ waiter \in (IF bill = "none" THEN {None} ELSE Waiter \union {None})
    /\ calling = FALSE /\ receipt = FALSE
    /\ request = [r \in Request |-> Idle]
    /\ \E open \in Open :
          conn = [c \in Page |-> IF c \notin open THEN "away" ELSE IF KindOf[c] = "track" THEN "off" ELSE "connecting"]
    /\ asked = [c \in Page |-> IF conn[c] = "connecting" THEN 1 ELSE 0]
    /\ view = [c \in Page |-> Nothing]
    /\ answers = [c \in Page |-> <<>>]
    /\ announced = FALSE /\ blind = {} /\ outdated = {}
    /\ changes = 0 /\ drops = 0

-----------------------------------------------------------------------------
(* Pages: useRealtime and the load() of each page *)

Loads(c) == asked[c] + Len(answers[c])
CanLoad(pages) == \A c \in pages : Loads(c) < MaxLoads
Load(pages) == asked' = [c \in Page |-> IF c \in pages THEN asked[c] + 1 ELSE asked[c]]

(* The customer opens the link that the order returned.                     *)
OpenTrack(c) ==
    /\ KindOf[c] = "track" /\ conn[c] = "off" /\ bill # "none"
    /\ conn' = [conn EXCEPT ![c] = "connecting"]
    /\ Load({c})
    /\ UNCHANGED <<server, request, view, answers, announced, blind, outdated, changes, drops>>

(* The answer to a join; an error does not end the connection.              *)
Joined(c) ==
    CASE ~Recognised(RoomOf(c))           -> "refused"
      [] KindOf[c] = "track" /\ announced -> "missed"
      [] OTHER                            -> "live"

(* onopen sends the join; the page does not load again once it has joined.  *)
Join(c) ==
    /\ conn[c] = "connecting"
    /\ conn' = [conn EXCEPT ![c] = Joined(c)]
    /\ UNCHANGED <<server, request, view, asked, answers, announced, blind, outdated, changes, drops>>

Fails == drops < MaxDrops /\ drops' = drops + 1

(* onclose: it will connect again.                                          *)
Drop(c) ==
    /\ conn[c] \in {"live", "missed"} /\ Fails
    /\ conn' = [conn EXCEPT ![c] = "connecting"]
    /\ UNCHANGED <<server, request, view, asked, answers, announced, blind, outdated, changes>>

Read(c) ==
    /\ asked[c] > 0
    /\ asked' = [asked EXCEPT ![c] = @ - 1]
    /\ answers' = [answers EXCEPT ![c] = Append(@, [shows |-> Shown(c), overtaken |-> FALSE])]
    /\ UNCHANGED <<server, request, conn, view, announced, blind, outdated, changes, drops>>

LoadFails(c) ==
    /\ asked[c] > 0 /\ Fails
    /\ asked' = [asked EXCEPT ![c] = @ - 1]
    /\ blind' = blind \union {c}
    /\ UNCHANGED <<server, request, conn, view, answers, announced, outdated, changes>>

(* Whatever answer arrives is shown; nothing compares it with the last one. *)
WithoutAnswer(queue, k) ==
    [j \in 1 .. Len(queue) - 1 |-> IF j < k THEN [queue[j] EXCEPT !.overtaken = TRUE] ELSE queue[j + 1]]
Show(c, k) ==
    /\ view' = [view EXCEPT ![c] = answers[c][k].shows]
    /\ outdated' = IF answers[c][k].overtaken THEN outdated \union {c} ELSE outdated \ {c}
    /\ answers' = [answers EXCEPT ![c] = WithoutAnswer(answers[c], k)]
    /\ UNCHANGED <<server, request, conn, asked, announced, blind, changes, drops>>

-----------------------------------------------------------------------------
(* What requests broadcast after their commit *)

(* A request's steps after its commit: broadcasts, which may concern some   *)
(* stations or a waiter, and changes of their own.  Rooms of different      *)
(* stations are told in one step, as no page is in two.                     *)
Broadcasts == {"station", "admin", "waiter", "previous", "order"}
Do(what) == [what |-> what, of |-> {}]
Stations(of) == [what |-> "station", of |-> of]
Ordered == {DestinationOf[i] : i \in Item}

(* Mutant: the room is closed before its pages are told.                    *)
CloseFirst == <<Do("close"), Do("announce")>>
Finalize == <<Do("announce"), Do("close")>>

(* broadcastToTableWaiter tells the admin's room, then the waiter's.  A     *)
(* waiter who orders for a table that was free takes it directly.           *)
AfterPlace  == <<Stations(Ordered), Do("assign"), Do("admin"), Do("waiter")>>
Direct(w)   == [what |-> "assign", of |-> {w}]
AfterTake(w, free) ==
    IF free THEN <<Stations(Ordered), Direct(w), Do("admin"), Do("waiter")>>
            ELSE <<Stations(Ordered), Do("admin"), Do("waiter")>>
AfterTap(i, served) ==
    IF served THEN <<Stations({DestinationOf[i]}), Do("admin"), Do("waiter"), Do("order"), Do("finalize")>>
              ELSE <<Stations({DestinationOf[i]}), Do("admin"), Do("waiter"), Do("order")>>
(* Mutant: it forgets the stations.                                         *)
CancelQuietly == <<Do("order"), Do("admin"), Do("waiter")>>
AfterCancel == <<Stations(Station), Do("order"), Do("admin"), Do("waiter")>>
AfterPay    == <<Do("receipt"), Do("finalize")>>
AfterCall   == <<Do("assign"), Do("call"), Do("admin"), Do("waiter")>>
AfterClose(previous) == IF previous = None THEN <<>> ELSE <<[what |-> "previous", of |-> {previous}]>>

(* broadcastToTableWaiter reads the assignment when it gets there.          *)
WaiterRooms == IF waiter # None THEN {<<"waiter", waiter>>} ELSE {<<"waiter", w>> : w \in Waiter}

RoomsOf(step) ==
    CASE step.what = "station"            -> {<<"station", d>> : d \in step.of}
      [] step.what = "previous"           -> {<<"waiter", w>> : w \in step.of}
      [] step.what = "waiter"             -> WaiterRooms
      [] step.what \in {"admin", "order"} -> {<<step.what, None>>}

(* Changes that are not broadcast to pages that show them: payment,         *)
(* acknowledgement and the opening of a session to nobody, the closing of a *)
(* table to its waiter only, a new assignment of the table to nobody by     *)
(* itself, and that a table is idle no more not to the other waiters.       *)
Lists == {c \in Page : Opened(c) /\ KindOf[c] \in {"waiter", "floor"}}
Boards == {c \in Page : Opened(c) /\ KindOf[c] = "board"}
NotTold(what) ==
    CASE what \in {"pay", "ack", "scan"} -> Lists
      [] what = "close"  -> {c \in Lists : KindOf[c] = "floor" \/ UserOf[c] # waiter} \union Boards
      [] what = "assign" -> Lists \union Boards
      [] what = "order"  -> {c \in Lists : KindOf[c] = "waiter" /\ waiter \notin {UserOf[c], None}}

(* A broadcast that no page can be looking for does nothing: a request      *)
(* passes over it.                                                          *)
Reaches(step, c) ==
    /\ step.what \in Broadcasts
    /\ IF step.what = "waiter" THEN KindOf[c] = "waiter" ELSE RoomOf(c) \in RoomsOf(step)
Watched(step) == step.what \in Broadcasts => \E c \in Page : conn[c] # "away" /\ Reaches(step, c)
Skipped(todo) ==
    {n \in 0 .. Len(todo) : (\A k \in 1 .. n : ~Watched(todo[k])) /\ (n < Len(todo) => Watched(todo[n + 1]))}

GoOn(r, by, todo) ==
    \E n \in Skipped(todo) :
        request' = [request EXCEPT ![r] = [todo |-> SubSeq(todo, n + 1, Len(todo)), by |-> by, busy |-> TRUE]]

(* A request on behalf of page c, or from a device that is not modelled.    *)
Start(by, todo) ==
    /\ changes < MaxChanges /\ changes' = changes + 1
    /\ \E r \in Request : ~request[r].busy /\ GoOn(r, by, todo)
    /\ UNCHANGED <<conn, view, asked, answers, announced, outdated, drops>>

-----------------------------------------------------------------------------
(* The requests the server accepts *)

Index(s) == CASE s = "received" -> 1 [] s = "preparing" -> 2 [] s = "ready" -> 3
              [] s = "served" -> 4 [] OTHER -> 0

NextStatus(s) == CASE s = "received" -> {"preparing"} [] s = "preparing" -> {"ready"} [] OTHER -> {}
StepBack(s) == CASE s = "preparing" -> {"received"} [] s = "ready" -> {"preparing"}
                 [] s = "served" -> {"ready"} [] OTHER -> {}

LiveItems == {i \in Item : item[i] # "cancelled"}
Cancellable == {"received", "preparing", "ready"}

MayCancel(asCustomer) ==
    /\ bill = "unpaid"
    /\ \E i \in LiveItems : item[i] \in Cancellable
    /\ asCustomer => \A i \in LiveItems : item[i] = "received"

MayTap(i, s) == item[i] # "none" /\ Index(s) > Index(item[i])
MayOverride(i, s) == item[i] # "none" /\ s # item[i]
MayClose == seated /\ bill # "unpaid"

(* The menu opens a session; nobody is told.                                *)
Scan ==
    /\ bill = "none" /\ ~seated
    /\ Start(None, <<>>)
    /\ seated' = TRUE
    /\ blind' = blind \union NotTold("scan")
    /\ UNCHANGED <<item, bill, waiter, calling, receipt>>

(* createOrderForTable, in a session that it opens if there is none.        *)
Order ==
    /\ bill = "none"
    /\ item' = [i \in Item |-> "received"] /\ bill' = "unpaid" /\ seated' = TRUE
    /\ blind' = blind \union NotTold("order")
    /\ UNCHANGED <<waiter, calling, receipt>>

(* placeOrder, and an order that an admin takes.                            *)
Place ==
    Order /\ Start(None, AfterPlace)

(* placeStaffOrder by a waiter; the assignment is the one it read before.   *)
TakeOrder(w, by) ==
    /\ waiter \in {w, None} /\ Order
    /\ Start(by, AfterTake(w, waiter = None))

SetStatus(i, s, by) ==
    /\ Start(by, AfterTap(i, s = "served"))
    /\ item' = [item EXCEPT ![i] = s]
    /\ UNCHANGED <<bill, waiter, seated, calling, receipt, blind>>

Cancel(asCustomer, by) ==
    /\ MayCancel(asCustomer)
    /\ Start(by, AfterCancel)
    /\ item' = [i \in Item |-> IF item[i] \in Cancellable THEN "cancelled" ELSE item[i]]
    /\ UNCHANGED <<bill, waiter, seated, calling, receipt, blind>>

Pay(by) ==
    /\ bill # "none"
    /\ Start(by, AfterPay)
    /\ bill' = "paid"
    /\ blind' = blind \union NotTold("pay")
    /\ UNCHANGED <<item, waiter, seated, calling, receipt>>

(* Assigning and flagging are its first two steps.                          *)
Call(by) ==
    /\ bill # "none"
    /\ Start(by, AfterCall)
    /\ UNCHANGED <<server, blind>>

Acknowledge(by) ==
    /\ Start(by, <<>>)
    /\ calling' = FALSE
    /\ blind' = blind \union NotTold("ack")
    /\ UNCHANGED <<item, bill, waiter, seated, receipt>>

Close(by) ==
    /\ MayClose
    /\ Start(by, AfterClose(waiter))
    /\ seated' = FALSE /\ waiter' = None
    /\ blind' = blind \union NotTold("close")
    /\ UNCHANGED <<item, bill, calling, receipt>>

Handoff(w) ==
    /\ w # waiter
    /\ Start(None, <<>>)
    /\ waiter' = w
    /\ blind' = blind \union NotTold("assign")
    /\ UNCHANGED <<item, bill, seated, calling, receipt>>

(* Somebody else, with a device of their own.                               *)
Elsewhere ==
    \/ Scan \/ Place
    \/ \E w \in Waiter : TakeOrder(w, None)
    \/ \E i \in Item, s \in {"preparing", "ready", "served"} : MayTap(i, s) /\ SetStatus(i, s, None)
    \/ \E i \in Item : \E s \in StepBack(item[i]) : MayOverride(i, s) /\ SetStatus(i, s, None)
    \/ \E asCustomer \in BOOLEAN : Cancel(asCustomer, None)
    \/ Pay(None) \/ Call(None) \/ (calling /\ Acknowledge(None)) \/ Close(None)
    \/ \E w \in Waiter : Handoff(w)

-----------------------------------------------------------------------------
(* What a page offers, by what it shows *)

(* Mutant: a station offers to serve what is ready.                         *)
TapToServe(c) == {<<"tap", i, s>> : i \in DOMAIN view[c].queue, s \in {"preparing", "ready", "served"}}
StationOffers(c) ==
    {o \in {<<"tap", i, s>> : i \in DOMAIN view[c].queue, s \in Status} : o[3] \in NextStatus(view[c].queue[o[2]])}

BoardOffers(c) ==
    {o \in {<<"override", i, s>> : i \in DOMAIN view[c].queue, s \in Status} :
        LET now == view[c].queue[o[2]] IN
        o[3] \in NextStatus(now) \union StepBack(now) \/ (now = "ready" /\ o[3] = "served")}

TrackOffers(c) ==
    {<<"call">>} \union (IF \A i \in Item : view[c].item[i] = "received" THEN {<<"cancel">>} ELSE {})

(* Of the session; only the waiters' pages cancel, serve and take orders.   *)
SessionOffers(kind, shown) ==
    {<<"close">>}
      \union (IF shown.calling THEN {<<"ack">>} ELSE {})
      \union (IF shown.bill = "unpaid" THEN {<<"pay">>} ELSE {})
      \union (IF shown.bill = "paid" THEN {<<"resend">>} ELSE {})
      \union (IF shown.bill = "unpaid" /\ kind = "waiter" THEN {<<"cancel">>} ELSE {})
      \union (IF kind = "waiter"
                THEN {<<"take">>} \union {<<"tap", i, "served">> : i \in {j \in Item : shown.item[j] = "ready"}} ELSE {})

ListOffers(c) ==
    (IF view[c].listed = Nothing THEN {} ELSE SessionOffers(KindOf[c], view[c].listed))
      \union (IF view[c].idle THEN {<<"start">>} ELSE {})

Offers(c) ==
    IF view[c] = Nothing THEN {}
    ELSE CASE KindOf[c] = "track"   -> TrackOffers(c)
           [] KindOf[c] = "station" -> StationOffers(c)
           [] KindOf[c] = "board"   -> BoardOffers(c)
           [] OTHER                 -> ListOffers(c)

(* The role a status needs: stations prepare, waiters serve, and the admin  *)
(* may do both.                                                             *)
RoleAllows(kind, s) == kind \in {"board", "floor", IF s = "served" THEN "waiter" ELSE "station"}

(* The routes of the tables take the admin and the waiters.                 *)
TableStaff(c) == KindOf[c] \in {"waiter", "floor"}
OwnTable(c) == KindOf[c] = "waiter" => waiter \in {UserOf[c], None}

(* What the server does not refuse to page c.                               *)
Accepts(c, o) ==
    CASE o[1] = "tap"      -> MayTap(o[2], o[3]) /\ RoleAllows(KindOf[c], o[3])
      [] o[1] = "override" -> KindOf[c] = "board" /\ MayOverride(o[2], o[3])
      [] o[1] = "cancel"   -> (KindOf[c] = "track" \/ TableStaff(c)) /\ MayCancel(KindOf[c] = "track")
      [] o[1] = "pay"      -> TableStaff(c) /\ bill # "none"
      [] o[1] = "resend"   -> TableStaff(c) /\ receipt
      [] o[1] = "call"     -> bill # "none"
      [] o[1] = "ack"      -> TableStaff(c)
      [] o[1] = "close"    -> TableStaff(c) /\ MayClose /\ OwnTable(c)
      [] o[1] \in {"take", "start"} -> TableStaff(c) /\ OwnTable(c)

(* The tracking page does not load after it has called, nor a list after a  *)
(* resend (see ReceiptLinks), which changes nothing that is shown.          *)
Press(c, o) ==
    /\ Accepts(c, o)
    /\ CASE o[1] \in {"tap", "override"} -> SetStatus(o[2], o[3], c)
         [] o[1] = "cancel" -> Cancel(KindOf[c] = "track", c)
         [] o[1] = "pay"    -> Pay(c)
         [] o[1] = "resend" -> UNCHANGED vars
         [] o[1] = "call"   -> Call(None)
         [] o[1] = "ack"    -> Acknowledge(c)
         [] o[1] = "close"  -> Close(c)
         [] o[1] \in {"take", "start"} -> TakeOrder(UserOf[c], c)

(* Only the tracking page loads again when its cancellation is refused.     *)
RefusedCancel(c) ==
    /\ KindOf[c] = "track" /\ <<"cancel">> \in Offers(c) /\ ~MayCancel(TRUE)
    /\ CanLoad({c}) /\ Load({c})
    /\ blind' = blind \ {c}
    /\ UNCHANGED <<server, request, conn, view, answers, announced, outdated, changes, drops>>

-----------------------------------------------------------------------------
(* The steps of a request *)

(* dynamoBroadcast, or the room map of the local server: every connection   *)
(* in the room gets the event and its page loads again; the others miss it. *)
(* A failed query of the room or a failed post is logged, and the request   *)
(* goes on.  (An event and the load it triggers are one step: an event that *)
(* is late is a load that is read late.)                                    *)
Members(rooms) == UNION {InRoom(room) : room \in rooms}
Broadcast(rooms, lost) ==
    LET told == Members(rooms) \ lost IN
    /\ CanLoad(told)
    /\ Load(told)
    /\ blind' = (blind \ told) \union lost \union UNION {Outside(room) : room \in rooms}
    /\ IF lost = {} THEN UNCHANGED drops ELSE Fails

(* Mutant: it forgets the payment. *)
ServedIsComplete == \A i \in Item : item[i] \in {"served", "cancelled"}
Complete == bill = "paid" /\ \A i \in Item : item[i] \in {"served", "cancelled"}

Rest(r) == GoOn(r, request[r].by, Tail(request[r].todo))
Doing(r, what) == request[r].todo # <<>> /\ Head(request[r].todo).what = what

BroadcastStep(r) ==
    /\ \E what \in Broadcasts : Doing(r, what)
    /\ LET rooms == RoomsOf(Head(request[r].todo)) IN \E lost \in SUBSET Members(rooms) : Broadcast(rooms, lost)
    /\ Rest(r)
    /\ UNCHANGED <<server, conn, view, answers, announced, outdated, changes>>

(* assignNextWaiterRoundRobin is a no-op at a table that has a waiter;      *)
(* assignWaiterDirectly takes the table over from whoever has got it since. *)
Assignable(of) == IF of # {} THEN of ELSE IF waiter = None THEN Waiter ELSE {waiter}
AssignStep(r) ==
    /\ Doing(r, "assign")
    /\ waiter' \in Assignable(Head(request[r].todo).of)
    /\ blind' = IF waiter' = waiter THEN blind ELSE blind \union {c \in NotTold("assign") : KindOf[c] # "floor"}
    /\ Rest(r)
    /\ UNCHANGED <<item, bill, seated, calling, receipt, conn, view, asked, answers, announced, outdated,
                   changes, drops>>

(* issueAndSendReceipt: what fails there is logged.                         *)
ReceiptStep(r) ==
    /\ Doing(r, "receipt")
    /\ \/ receipt' = TRUE /\ UNCHANGED drops
       \/ UNCHANGED receipt /\ Fails
    /\ Rest(r)
    /\ UNCHANGED <<item, bill, waiter, seated, calling, client, announced, changes>>

CallStep(r) ==
    /\ Doing(r, "call")
    /\ calling' = TRUE
    /\ Rest(r)
    /\ UNCHANGED <<item, bill, waiter, seated, receipt, client, announced, changes, drops>>

(* finalizeOrderIfComplete *)
FinalizeStep(r) ==
    /\ Doing(r, "finalize")
    /\ GoOn(r, request[r].by, IF Complete THEN Finalize ELSE <<>>)
    /\ UNCHANGED <<server, client, announced, changes, drops>>

(* A page that is told loads once more, closes and does not come back.      *)
AnnounceStep(r) ==
    /\ Doing(r, "announce")
    /\ \E lost \in SUBSET InRoom(<<"order", None>>) :
          /\ Broadcast({<<"order", None>>}, lost)
          /\ conn' = [c \in Page |-> IF c \in lost THEN "missed"
                                     ELSE IF c \in InRoom(<<"order", None>>) THEN "done" ELSE conn[c]]
    /\ announced' = TRUE
    /\ Rest(r)
    /\ UNCHANGED <<server, view, answers, outdated, changes>>

(* closeRoom: those that joined in between, or whose post failed, are       *)
(* disconnected all the same, and connect again; a failure is logged.       *)
CloseStep(r) ==
    /\ Doing(r, "close")
    /\ \E kept \in SUBSET InRoom(<<"order", None>>) :
          /\ conn' = [c \in Page |-> IF c \in InRoom(<<"order", None>>) \ kept THEN "connecting" ELSE conn[c]]
          /\ IF kept = {} THEN UNCHANGED drops ELSE Fails
    /\ Rest(r)
    /\ UNCHANGED <<server, view, asked, answers, announced, blind, outdated, changes>>

(* After its commit a request may still fail - a read that a broadcast or   *)
(* the completion check begins with throws - or its process or its answer   *)
(* is lost: what it has left to tell is not told.                           *)
Tells(step, c) == step.what \in Broadcasts /\ RoomOf(c) \in RoomsOf(step)
Untold(r) ==
    {c \in Page : Opened(c) /\ (c = request[r].by \/ \E k \in DOMAIN request[r].todo : Tells(request[r].todo[k], c))}
Abandon(r) ==
    /\ request[r].busy /\ Fails
    /\ request' = [request EXCEPT ![r] = Idle]
    /\ blind' = blind \union Untold(r)
    /\ UNCHANGED <<server, conn, view, asked, answers, announced, outdated, changes>>

(* The response; the page that sent the request loads.                      *)
Reply(r) ==
    /\ request[r].busy /\ request[r].todo = <<>>
    /\ request' = [request EXCEPT ![r] = Idle]
    /\ IF request[r].by = None THEN UNCHANGED <<asked, blind>>
       ELSE CanLoad({request[r].by}) /\ Load({request[r].by}) /\ blind' = blind \ {request[r].by}
    /\ UNCHANGED <<server, conn, view, answers, announced, outdated, changes, drops>>

-----------------------------------------------------------------------------

Next ==
    \/ Elsewhere
    \/ \E c \in Page :
          \/ \E o \in Offers(c) : Press(c, o)
          \/ RefusedCancel(c)
          \/ OpenTrack(c) \/ Join(c) \/ Drop(c) \/ Read(c) \/ LoadFails(c)
          \/ \E k \in DOMAIN answers[c] : Show(c, k)
    \/ \E r \in Request :
          \/ BroadcastStep(r) \/ AssignStep(r) \/ ReceiptStep(r) \/ CallStep(r)
          \/ FinalizeStep(r) \/ AnnounceStep(r) \/ CloseStep(r) \/ Abandon(r) \/ Reply(r)

Spec == Init /\ [][Next]_vars

-----------------------------------------------------------------------------
(* Properties *)

(* Every variable has its type; a page is told that its order is complete,  *)
(* or comes too late to be told, only once a paid order was announced.      *)
TypeOK ==
    /\ item \in [Item -> Status]
    /\ bill \in {"none", "unpaid", "paid"}
    /\ waiter \in Waiter \union {None}
    /\ {seated, calling, receipt, announced} \subseteq BOOLEAN
    /\ \A r \in Request : request[r].by \in Page \union {None} /\ Len(request[r].todo) <= 5
    /\ conn \in [Page -> Connection]
    /\ \A c \in Page : conn[c] \in {"done", "missed"} => announced
    /\ announced => bill = "paid"
    /\ asked \in [Page -> 0 .. MaxLoads]
    /\ \A c \in Page : Loads(c) <= MaxLoads
    /\ blind \subseteq Page /\ outdated \subseteq Page

Quiet(c) == asked[c] = 0 /\ answers[c] = <<>> /\ \A r \in Request : ~request[r].busy

(* When everything has settled, a page that calls itself live shows what    *)
(* the server holds, and so does one that was let go because its order was  *)
(* complete, except for what `blind` and `outdated` record: changes that    *)
(* are broadcast to nobody who shows them (payments, acknowledgements,      *)
(* handoffs, the opening and closing of a table), events missed before it   *)
(* joined, while it was reconnecting or because something failed, failed    *)
(* loads, and answers that overtook each other.  So every other change      *)
(* reaches every page that shows it, although the waiter's room is looked   *)
(* up only when the request gets there, whatever the requests' broadcasts,  *)
(* loads and reconnects interleave to, and a page that missed something     *)
(* catches up with the next event of any request.                           *)
ScreensCatchUp ==
    \A c \in Page :
        Quiet(c) /\ conn[c] \in {"live", "missed", "done"} /\ c \notin blind \union outdated
            => view[c] = Shown(c)

(* A receipt that is still to be issued.                                    *)
Due(r) == \E k \in DOMAIN request[r].todo : request[r].todo[k].what = "receipt"

(* A page that is up to date offers no button the server refuses, except    *)
(* five: the customer's cancellation of an order that has been paid, a      *)
(* waiter's of one with nothing left to cancel, the closing of a table with *)
(* an unpaid order, the start of an idle table that is another waiter's,    *)
(* and a resend while the receipt is being issued or when that failed.      *)
Excepted(c, o) ==
    CASE o[1] = "cancel" -> IF KindOf[c] = "track" THEN bill = "paid"
                            ELSE \A i \in Item : item[i] \in {"served", "cancelled"}
      [] o[1] = "close"  -> bill = "unpaid"
      [] o[1] = "start"  -> waiter # None
      [] o[1] = "resend" -> drops > 0 \/ \E r \in Request : Due(r)
      [] OTHER           -> FALSE
OffersAccepted ==
    \A c \in Page : view[c] = Shown(c) => \A o \in Offers(c) : Accepts(c, o) \/ Excepted(c, o)

(* No request takes a page's connection away untold, unless the page missed *)
(* the announcement that its order is complete, by joining after it or by a *)
(* failed post; any page in the room that the announcement reached has let  *)
(* go by then.  Otherwise it would connect again and hold a connection for  *)
(* an order that changes no more, as those that missed it do.               *)
CutOffOnlyTold ==
    [][\A c \in Page : conn[c] = "live" /\ conn'[c] = "connecting" => UNCHANGED request]_vars
=============================================================================
