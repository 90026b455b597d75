-------------------------------- MODULE Floor --------------------------------
(***************************************************************************)
(* The floor of one restaurant: which table has an open session, which     *)
(* orders sit in which session, and which waiter a table is assigned to.   *)
(* Customers scan, order and call a waiter; waiters and the admin order    *)
(* for them, take payment and close tables; the admin hands tables over,   *)
(* removes tables and replaces their QR codes, and edits the staff.        *)
(* An operation is an HTTP request made of several PostgreSQL statements   *)
(* and transactions at READ COMMITTED; an action is the work of a request  *)
(* up to the next point where another request can get in between.          *)
(*   src/src/modules/tables/*, orders/orders.service.ts (placing orders),  *)
(*   admin/admin.repository.ts (tables), staff/staff.repository.ts,        *)
(*   routes/customerRoutes.ts (call-waiter).                               *)
(* Which of the waiters a round robin prefers is left open, and broadcasts, *)
(* pushes, notifications and reporting events, which change nothing here,  *)
(* are left out.                                                           *)
(***************************************************************************)
EXTENDS Naturals

CONSTANTS
    Table,    \* the restaurant's tables
    Staff,    \* staff_user rows; all of them log in as waiters
    Request,  \* the HTTP requests that ever arrive; each runs once
    Admin,    \* the admin, who holds no tables
    None      \* NULL, an absent row, nobody

ASSUME FloorAssumption ==
    /\ Admin \notin Staff
    /\ None \notin Staff \union {Admin} \union Request
    /\ Table \intersect Request = {}

VARIABLES
    removed,  \* table.removed_at IS NOT NULL
    code,     \* table.qr_token, as the number of times it was replaced
    assigned, \* table.assigned_waiter_id
    session,  \* table_session rows, named after the request that inserted them
    order,    \* order rows, named after the request that inserted them
    role,     \* staff_user.role, "gone" once the row is deleted
    lock,     \* who holds a table or table_session row FOR UPDATE
    pc,       \* where each request is
    job       \* what a request in progress works on and has read

vars == <<removed, code, assigned, session, order, role, lock, pc, job>>

-----------------------------------------------------------------------------
(* Types *)

Row == Table \union Request

(* 'awaiting_payment' is in the enum, and no code ever sets it.             *)
SessionRow == [table: Table, status: {"active", "closed"}, calling: BOOLEAN]
OrderRow   == [session: Request, paid: BOOLEAN]

Kind == {"scan", "order", "staffOrder", "call", "close", "handoff", "retire"}

ASSUME NoneIsNoRow == None \notin SessionRow \union OrderRow

(* by: the staff member who sent the request; waiter: the one it has read,  *)
(* picked or was told to assign.                                            *)
Job == [kind: Kind, table: Table, session: Request \union {None},
        by: Staff \union {Admin, None}, waiter: Staff \union {None}]

Control == {"idle", "session", "open", "insert", "assign", "assignWrite", "direct",
            "markCalling", "closeCount", "closeWrite", "handoffWrite",
            "remove", "regenerate", "done"}

(* Types; above all, a table's waiter is never the admin, who has no table  *)
(* of their own to claim an order onto.                                     *)
TypeOK ==
    /\ removed \in [Table -> BOOLEAN]
    /\ code \in [Table -> Nat]
    /\ assigned \in [Table -> Staff \union {None}]
    /\ session \in [Request -> SessionRow \union {None}]
    /\ order \in [Request -> OrderRow \union {None}]
    /\ role \in [Staff -> {"waiter", "other", "gone"}]
    /\ lock \in [Row -> Request \union {None}]
    /\ pc \in [Request -> Control]
    /\ job \in [Request -> Job \union {None}]

Init ==
    /\ removed = [t \in Table |-> FALSE]
    /\ code = [t \in Table |-> 0]
    /\ assigned = [t \in Table |-> None]
    /\ session = [r \in Request |-> None]
    /\ order = [r \in Request |-> None]
    /\ role = [w \in Staff |-> "waiter"]
    /\ lock = [x \in Row |-> None]
    /\ pc = [r \in Request |-> "idle"]
    /\ job = [r \in Request |-> None]

-----------------------------------------------------------------------------
(* Requests and row locks *)

Goto(r, label) == pc' = [pc EXCEPT ![r] = label]

(* A request whose next step is at label starts with this job.              *)
Start(r, label, j) ==
    /\ Goto(r, label)
    /\ job' = [job EXCEPT ![r] = j]

(* The response, or an error, is sent; the request's locals go away.        *)
Finish(r) == Start(r, "done", None)

(* FOR UPDATE, and any UPDATE of the row, waits until the rows are free.    *)
(* Mutant: rows are read without FOR UPDATE.                                *)
NeverBlocked(rows) == TRUE
Free(rows) == \A x \in rows : lock[x] = None

Lock(r, rows) == lock' = [x \in Row |-> IF x \in rows THEN r ELSE lock[x]]
Unlock(r)     == lock' = [x \in Row |-> IF lock[x] = r THEN None ELSE lock[x]]

Active(s)         == session[s] # None /\ session[s].status = "active"
ActiveSessions(t) == {s \in Request : Active(s) /\ session[s].table = t}

(* The foreign key of table.assigned_waiter_id: an update that points to a  *)
(* deleted staff_user fails, and its transaction is rolled back.            *)
(* Mutant: the column is not a foreign key.                                 *)
AnyWaiter(w) == TRUE
Gone == {w \in Staff : role[w] = "gone"}
Assignable(w) == w \notin Gone

-----------------------------------------------------------------------------
(* Scanning and ordering: resolveTableForOrdering, placeOrder and            *)
(* placeStaffOrder, which share findOrCreateActiveSession and insertOrder    *)

NewJob(kind, t, by) ==
    [kind |-> kind, table |-> t, session |-> None, by |-> by, waiter |-> None]

(* findTableByQrToken: a removed table is not found, nor one whose code has *)
(* been replaced since the customer's sign was printed.                     *)
Resolve(r, kind, t) ==
    /\ pc[r] = "idle"
    /\ \/ ~removed[t] /\ Start(r, "session", NewJob(kind, t, None))
       \/ (removed[t] \/ code[t] > 0) /\ Finish(r)
    /\ UNCHANGED <<removed, code, assigned, session, order, role, lock>>

(* Staff, whatever their role is by now, act with the role in their token.  *)
MayServe(by, t) == by = Admin \/ assigned[t] \in {None, by}

StaffOrder(r, t, by) ==
    /\ pc[r] = "idle"
    /\ IF ~removed[t] /\ MayServe(by, t)
         THEN Start(r, "session", [NewJob("staffOrder", t, by) EXCEPT !.waiter = assigned[t]])
         ELSE Finish(r)
    /\ UNCHANGED <<removed, code, assigned, session, order, role, lock>>

InSession(r, s) ==
    IF job[r].kind = "scan" THEN Finish(r)
                            ELSE Start(r, "insert", [job[r] EXCEPT !.session = s])

(* findOrCreateActiveSession, with the table row locked.                    *)
JoinSession(r) ==
    /\ pc[r] = "session"
    /\ Free({job[r].table})
    /\ \E s \in ActiveSessions(job[r].table) : InSession(r, s)
    /\ UNCHANGED <<removed, code, assigned, session, order, role, lock>>

NoSession(r) ==
    /\ pc[r] = "session"
    /\ Free({job[r].table})
    /\ ActiveSessions(job[r].table) = {}
    /\ Lock(r, {job[r].table})
    /\ Goto(r, "open")
    /\ UNCHANGED <<removed, code, assigned, session, order, role, job>>

OpenSession(r) ==
    /\ pc[r] = "open"
    /\ session' = [session EXCEPT ![r] =
                      [table |-> job[r].table, status |-> "active", calling |-> FALSE]]
    /\ Unlock(r)
    /\ InSession(r, r)
    /\ UNCHANGED <<removed, code, assigned, order, role>>

(* An item that does not exist or is sold out.                              *)
RejectItems(r) ==
    /\ pc[r] = "insert"
    /\ Finish(r)
    /\ UNCHANGED <<removed, code, assigned, session, order, role, lock>>

(* Who orders for a table nobody has yet gets it at once; the admin, who    *)
(* serves no tables, leaves it to the round robin.                          *)
(* Mutant: the table goes to whoever of the staff ordered for it.           *)
AnyoneClaims(by) == by # None
ClaimsTable(by) == by \in Staff

(* The foreign key to table_session waits for a close in progress; whether  *)
(* the session is still active is not looked at again.                      *)
InsertOrder(r) ==
    /\ pc[r] = "insert"
    /\ Free({job[r].session})
    /\ order' = [order EXCEPT ![r] = [session |-> job[r].session, paid |-> FALSE]]
    /\ \/ job[r].waiter # None /\ Finish(r)
       \/ /\ job[r].waiter = None
          /\ Goto(r, IF ClaimsTable(job[r].by) THEN "direct" ELSE "assign")
          /\ UNCHANGED job
    /\ UNCHANGED <<removed, code, assigned, session, role, lock>>

-----------------------------------------------------------------------------
(* Assigning a waiter: assignNextWaiterRoundRobin and assignWaiterDirectly   *)

Waiters == {w \in Staff : role[w] = "waiter"}

Assigned(r) ==
    IF job[r].kind = "call" THEN Goto(r, "markCalling") /\ UNCHANGED job
                            ELSE Finish(r)

(* The table has a waiter, or the restaurant has none.                      *)
NothingToAssign(r) ==
    /\ pc[r] = "assign"
    /\ Free({job[r].table})
    /\ assigned[job[r].table] # None \/ Waiters = {}
    /\ Assigned(r)
    /\ UNCHANGED <<removed, code, assigned, session, order, role, lock>>

PickWaiter(r) ==
    /\ pc[r] = "assign"
    /\ Free({job[r].table})
    /\ assigned[job[r].table] = None
    /\ Lock(r, {job[r].table})
    /\ \E w \in Waiters : Start(r, "assignWrite", [job[r] EXCEPT !.waiter = w])
    /\ UNCHANGED <<removed, code, assigned, session, order, role>>

AssignPicked(r) ==
    /\ pc[r] = "assignWrite"
    /\ Assignable(job[r].waiter)
    /\ assigned' = [assigned EXCEPT ![job[r].table] = job[r].waiter]
    /\ Unlock(r)
    /\ Assigned(r)
    /\ UNCHANGED <<removed, code, session, order, role>>

(* A plain UPDATE: whether the table was given away since is not looked at. *)
AssignDirectly(r) ==
    /\ pc[r] = "direct"
    /\ Free({job[r].table})
    /\ \/ ~Assignable(job[r].by) /\ UNCHANGED assigned
       \/ /\ Assignable(job[r].by)
          /\ assigned' = [assigned EXCEPT ![job[r].table] = job[r].by]
    /\ Finish(r)
    /\ UNCHANGED <<removed, code, session, order, role, lock>>

-----------------------------------------------------------------------------
(* Calling a waiter from the tracking page of order o                        *)

CallWaiter(r, o) ==
    /\ pc[r] = "idle"
    /\ order[o] # None
    /\ LET s == order[o].session
           t == session[s].table
       IN  Start(r, IF assigned[t] = None THEN "assign" ELSE "markCalling",
                 [NewJob("call", t, None) EXCEPT !.session = s])
    /\ UNCHANGED <<removed, code, assigned, session, order, role, lock>>

MarkCalling(r) ==
    /\ pc[r] = "markCalling"
    /\ Free({job[r].session})
    /\ session' = [session EXCEPT ![job[r].session].calling = TRUE]
    /\ Finish(r)
    /\ UNCHANGED <<removed, code, assigned, order, role, lock>>

Acknowledge(s) ==
    /\ session[s] # None
    /\ Free({s})
    /\ session' = [session EXCEPT ![s].calling = FALSE]
    /\ UNCHANGED <<removed, code, assigned, order, role, lock, pc, job>>

MarkPaid(o) ==
    /\ order[o] # None
    /\ order' = [order EXCEPT ![o].paid = TRUE]
    /\ UNCHANGED <<removed, code, assigned, session, role, lock, pc, job>>

-----------------------------------------------------------------------------
(* closeTableSession                                                         *)

(* SELECT ... FOR UPDATE over the join locks both rows.                     *)
(* Mutants: FOR UPDATE OF t, and FOR UPDATE OF ts.                          *)
LockTableOnly(s)   == {session[s].table}
LockSessionOnly(s) == {s}
CloseLocks(s)      == {s, session[s].table}

CloseLock(r, s, by) ==
    /\ pc[r] = "idle"
    /\ session[s] # None
    /\ Free(CloseLocks(s))
    /\ \/ /\ Active(s) /\ MayServe(by, session[s].table)
          /\ Lock(r, CloseLocks(s))
          /\ Start(r, "closeCount",
                   [NewJob("close", session[s].table, by) EXCEPT !.session = s])
       \/ /\ ~(Active(s) /\ MayServe(by, session[s].table))
          /\ Finish(r)
          /\ UNCHANGED lock
    /\ UNCHANGED <<removed, code, assigned, session, order, role>>

Unpaid(s) == {o \in Request : order[o] # None /\ order[o].session = s /\ ~order[o].paid}

CloseCount(r) ==
    /\ pc[r] = "closeCount"
    /\ IF Unpaid(job[r].session) = {}
         THEN Goto(r, "closeWrite") /\ UNCHANGED <<lock, job>>
         ELSE Unlock(r) /\ Finish(r)
    /\ UNCHANGED <<removed, code, assigned, session, order, role>>

CloseWrite(r) ==
    /\ pc[r] = "closeWrite"
    /\ session' = [session EXCEPT ![job[r].session].status = "closed"]
    /\ assigned' = [assigned EXCEPT ![job[r].table] = None]
    /\ Unlock(r)
    /\ Finish(r)
    /\ UNCHANGED <<removed, code, order, role>>

-----------------------------------------------------------------------------
(* The admin's tables: assignWaiterToTable, removeTable, regenerateQrToken   *)

HandoffLock(r, t, w) ==
    /\ pc[r] = "idle"
    /\ Free({t})
    /\ IF w \in Waiters
         THEN /\ Lock(r, {t})
              /\ Start(r, "handoffWrite", [NewJob("handoff", t, Admin) EXCEPT !.waiter = w])
         ELSE Finish(r) /\ UNCHANGED lock
    /\ UNCHANGED <<removed, code, assigned, session, order, role>>

HandoffWrite(r) ==
    /\ pc[r] = "handoffWrite"
    /\ Assignable(job[r].waiter)
    /\ assigned' = [assigned EXCEPT ![job[r].table] = job[r].waiter]
    /\ Unlock(r)
    /\ Finish(r)
    /\ UNCHANGED <<removed, code, session, order, role>>

(* assertTableHasNoActiveSession, without a lock.                           *)
RetireCheck(r, t, how) ==
    /\ pc[r] = "idle"
    /\ IF ~removed[t] /\ ActiveSessions(t) = {}
         THEN Start(r, how, NewJob("retire", t, Admin))
         ELSE Finish(r)
    /\ UNCHANGED <<removed, code, assigned, session, order, role, lock>>

Remove(r) ==
    /\ pc[r] = "remove"
    /\ Free({job[r].table})
    /\ removed' = [removed EXCEPT ![job[r].table] = TRUE]
    /\ Finish(r)
    /\ UNCHANGED <<code, assigned, session, order, role, lock>>

Regenerate(r) ==
    /\ pc[r] = "regenerate"
    /\ Free({job[r].table})
    /\ code' = [code EXCEPT ![job[r].table] = code[job[r].table] + 1]
    /\ Finish(r)
    /\ UNCHANGED <<removed, assigned, session, order, role, lock>>

-----------------------------------------------------------------------------
(* The admin's staff: updateStaffUser, deleteStaffUser                       *)

SetRole(w, to) ==
    /\ role[w] # "gone"
    /\ role' = [role EXCEPT ![w] = to]
    /\ UNCHANGED <<removed, code, assigned, session, order, lock, pc, job>>

(* ON DELETE SET NULL clears the waiter's tables, once they are not locked. *)
TablesOf(w) == {t \in Table : assigned[t] = w}

ReleaseTables(w) == [t \in Table |-> IF t \in TablesOf(w) THEN None ELSE assigned[t]]

DeleteStaff(w) ==
    /\ role[w] # "gone"
    /\ Free(TablesOf(w))
    /\ role' = [role EXCEPT ![w] = "gone"]
    /\ assigned' = ReleaseTables(w)
    /\ UNCHANGED <<removed, code, session, order, lock, pc, job>>

-----------------------------------------------------------------------------

(* A statement of a transaction fails, a foreign key or the connection: its *)
(* catch block rolls back and the request ends with an error.               *)
Rollback(r) ==
    /\ pc[r] \in {"open", "assignWrite", "closeCount", "closeWrite", "handoffWrite"}
    /\ Unlock(r)
    /\ Finish(r)
    /\ UNCHANGED <<removed, code, assigned, session, order, role>>

Begin(r) ==
    \/ \E t \in Table :
          \/ \E kind \in {"scan", "order"} : Resolve(r, kind, t)
          \/ \E by \in Staff \union {Admin} : StaffOrder(r, t, by)
          \/ \E w \in Staff : HandoffLock(r, t, w)
          \/ \E how \in {"remove", "regenerate"} : RetireCheck(r, t, how)
    \/ \E o \in Request : CallWaiter(r, o)
    \/ \E s \in Request, by \in Staff \union {Admin} : CloseLock(r, s, by)

Continue(r) ==
    \/ JoinSession(r)
    \/ NoSession(r)
    \/ OpenSession(r)
    \/ RejectItems(r)
    \/ InsertOrder(r)
    \/ NothingToAssign(r)
    \/ PickWaiter(r)
    \/ AssignPicked(r)
    \/ AssignDirectly(r)
    \/ MarkCalling(r)
    \/ CloseCount(r)
    \/ CloseWrite(r)
    \/ HandoffWrite(r)
    \/ Remove(r)
    \/ Regenerate(r)
    \/ Rollback(r)

(* Requests of a single statement need no control state.                    *)
Edit ==
    \/ \E o \in Request : MarkPaid(o)
    \/ \E s \in Request : Acknowledge(s)
    \/ \E w \in Staff :
          \/ \E to \in {"waiter", "other"} : SetRole(w, to)
          \/ DeleteStaff(w)

(* Every request has been answered; nothing is left to do.                  *)
Quiescent == (\A r \in Request : pc[r] = "done") /\ UNCHANGED vars

Next == (\E r \in Request : Begin(r) \/ Continue(r)) \/ Edit \/ Quiescent

Spec == Init /\ [][Next]_vars
-----------------------------------------------------------------------------
(* Properties *)

(* Two customers who scan or order at the same table at the same moment     *)
(* join one party: findOrCreateActiveSession never leaves a table with two  *)
(* active sessions, of which the second would hide the first's orders from  *)
(* the waiter who closes it.                                                *)
OneActiveSession ==
    \A s1, s2 \in Request :
        Active(s1) /\ Active(s2) /\ session[s1].table = session[s2].table => s1 = s2

(* closeTableSession counts the unpaid orders in one statement and closes   *)
(* the session in another.  At the moment it closes, every order in the     *)
(* session is paid: no order slips in after it has counted.                 *)
CloseOnlyPaid ==
    [][\A s \in Request :
          Active(s) /\ session'[s].status = "closed" => Unpaid(s) = {}]_vars

(* A waiter closes only a table that is theirs or nobody's, still so when   *)
(* the close commits: a handoff or a round robin that ran since the check   *)
(* does not have its table taken away again.                                *)
CloserMayClose ==
    \A r \in Request :
        pc[r] \in {"closeCount", "closeWrite"} => MayServe(job[r].by, job[r].table)

(* First caller wins: whichever of an order and a call-waiter press claims  *)
(* the table first, the other does not take it away.  A table passes from   *)
(* one waiter to another only by the admin's handoff or when a waiter       *)
(* orders for the table.                                                    *)
FirstCallerWins ==
    [][\A t \in Table :
          (assigned[t] # None /\ assigned'[t] \notin {assigned[t], None}) =>
              \E r \in Request :
                 /\ pc[r] \in {"handoffWrite", "direct"}
                 /\ pc'[r] = "done"
                 /\ job[r].table = t]_vars

(* A waiter who is deleted while a round robin or a handoff is about to     *)
(* give them a table does not leave the table with a waiter who does not    *)
(* exist, whom no push would reach and no round robin would replace.        *)
AssigneeExists == \A t \in Table : assigned[t] # None => role[assigned[t]] # "gone"

(* assignWaiterDirectly is described as a no-op on a table that is already  *)
(* assigned (to anyone); the code's UPDATE takes the table over.            *)
DirectAssignNoop ==
    [][\A t \in Table : \A r \in Request :
          (pc[r] = "direct" /\ pc'[r] = "done" /\ job[r].table = t /\ assigned[t] # None)
              => assigned'[t] = assigned[t]]_vars

(* Removing a table or replacing its code is described as never orphaning a *)
(* customer mid-order; the code checks for an active session and then       *)
(* updates the table without a lock in between.                             *)
RetiredTableIdle ==
    [][\A t \in Table :
          (removed'[t] # removed[t] \/ code'[t] # code[t]) => ActiveSessions(t) = {}]_vars
=============================================================================
