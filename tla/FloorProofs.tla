------------------------------ MODULE FloorProofs ------------------------------
(***************************************************************************)
(* What holds of Floor for any number of tables, staff and requests.       *)
(* A request relies on what it has read or locked (Fits), and every step   *)
(* of another request respects that (Respects).                            *)
(***************************************************************************)
EXTENDS Floor, TLAPS

-----------------------------------------------------------------------------
(* The inductive invariant *)

(* What the locals of a request in progress are.                            *)
JobFits(r) ==
    /\ pc[r] \notin {"idle", "done"} => job[r] \in Job
    /\ \/ pc[r] \in {"insert", "markCalling", "closeCount", "closeWrite"}
       \/ pc[r] \in {"assign", "assignWrite"} /\ job[r].kind = "call"
       => job[r].session \in Request /\ session[job[r].session] # None
    /\ pc[r] = "direct" => job[r].by \in Staff
    /\ pc[r] \in {"assignWrite", "handoffWrite"} => job[r].waiter \in Staff

(* findOrCreateActiveSession has found none, and holds the table.           *)
Opening(r) ==
    /\ pc[r] \in {"idle", "session", "open"} => session[r] = None
    /\ pc[r] = "open" => lock[job[r].table] = r /\ ActiveSessions(job[r].table) = {}

(* The table is still nobody's for the round robin that has picked.         *)
Assigning(r) ==
    /\ pc[r] \in {"assignWrite", "handoffWrite"} => lock[job[r].table] = r
    /\ pc[r] = "assignWrite" => assigned[job[r].table] = None

(* closeTableSession holds an active session and its table, and whoever     *)
(* closes still may; once it has counted there is nothing unpaid.           *)
Closing(r) ==
    /\ pc[r] \in {"closeCount", "closeWrite"} =>
          /\ lock[job[r].session] = r /\ lock[job[r].table] = r
          /\ Active(job[r].session) /\ session[job[r].session].table = job[r].table
          /\ MayServe(job[r].by, job[r].table)
    /\ pc[r] = "closeWrite" => Unpaid(job[r].session) = {}

Fits(r) == JobFits(r) /\ Opening(r) /\ Assigning(r) /\ Closing(r)

OrdersSeated == \A o \in Request : order[o] # None => session[order[o].session] # None

IInv == TypeOK /\ OrdersSeated /\ OneActiveSession /\ AssigneeExists /\ \A r \in Request : Fits(r)

(* What a step of another request, or an edit, leaves alone of what q       *)
(* relies on.                                                               *)
Respects(q) ==
    /\ pc'[q] = pc[q] /\ job'[q] = job[q]
    /\ session[q] = None => session'[q] = None
    /\ \A x \in Row : lock[x] = q => lock'[x] = q
    /\ \A s \in Request : session[s] # None => session'[s] # None /\ session'[s].table = session[s].table
    /\ \A t \in Table : lock[t] = q =>
          /\ assigned'[t] \in {assigned[t], None}
          /\ ActiveSessions(t)' \subseteq ActiveSessions(t)
    /\ \A s \in Request : lock[s] = q =>
          /\ Active(s) => Active(s)'
          /\ Unpaid(s)' \subseteq Unpaid(s)

(* A step of r leaves every other request what it relies on, and r fits its *)
(* next control state.                                                      *)
Keeps(r) == Fits(r)' /\ \A q \in Request \ {r} : Respects(q)

LEMMA RespectsKeepsFit ==
  ASSUME TypeOK, NEW q \in Request, Fits(q), Respects(q)
  PROVE  Fits(q)'
  <1>1. JobFits(q)'
        BY DEF TypeOK, Fits, JobFits, Respects, Job
  <1>2. Opening(q)'
    <2>1. pc[q] = "open" => job[q].table \in Table  BY DEF Fits, JobFits, Job
    <2>2. QED  BY <2>1 DEF Fits, Opening, Respects, Row
  <1>3. Assigning(q)'
    <2>1. pc[q] \in {"assignWrite", "handoffWrite"} => job[q].table \in Table
          BY DEF Fits, JobFits, Job
    <2>2. QED  BY <2>1 DEF Fits, Assigning, Respects, Row
  <1>4. Closing(q)'
    <2> SUFFICES ASSUME pc[q] \in {"closeCount", "closeWrite"} PROVE Closing(q)'
        BY DEF Closing, Respects
    <2>1. job[q].table \in Table /\ job[q].session \in Request
          BY DEF Fits, JobFits, Job
    <2>2. lock'[job[q].session] = q /\ lock'[job[q].table] = q
          BY <2>1 DEF Fits, Closing, Respects, Row
    <2>3. Active(job[q].session)' /\ session'[job[q].session].table = job[q].table
          BY <2>1 DEF Fits, Closing, JobFits, Respects
    <2>4. MayServe(job[q].by, job[q].table)'
          BY <2>1 DEF Fits, Closing, Respects, MayServe
    <2>5. pc[q] = "closeWrite" => Unpaid(job[q].session)' = {}
          BY <2>1 DEF Fits, Closing, Respects
    <2>6. QED  BY <2>2, <2>3, <2>4, <2>5 DEF Closing, Respects
  <1>5. QED  BY <1>1, <1>2, <1>3, <1>4 DEF Fits

-----------------------------------------------------------------------------
(* Locks *)

LEMMA LockTakes ==
  ASSUME TypeOK, NEW r \in Request, NEW S \in SUBSET Row, Lock(r, S), Free(S)
  PROVE  /\ lock' \in [Row -> Request \union {None}]
         /\ \A x \in S : lock'[x] = r
         /\ \A q \in Request, x \in Row : lock[x] = q => lock'[x] = q
  BY FloorAssumption DEF Lock, Free, TypeOK

LEMMA UnlockFrees ==
  ASSUME TypeOK, NEW r \in Request, Unlock(r)
  PROVE  /\ lock' \in [Row -> Request \union {None}]
         /\ \A q \in Request \ {r}, x \in Row : lock[x] = q => lock'[x] = q
  BY FloorAssumption DEF Unlock, TypeOK

LEMMA FinishType ==
  ASSUME TypeOK, NEW r \in Request, Finish(r)
  PROVE  /\ pc' \in [Request -> Control] /\ job' \in [Request -> Job \union {None}]
         /\ pc'[r] = "done"
         /\ \A q \in Request \ {r} : pc'[q] = pc[q] /\ job'[q] = job[q]
  BY DEF Finish, Start, Goto, TypeOK, Control

LEMMA StartType ==
  ASSUME TypeOK, NEW r \in Request, NEW label \in Control, NEW j \in Job, Start(r, label, j)
  PROVE  /\ pc' \in [Request -> Control] /\ job' \in [Request -> Job \union {None}]
         /\ pc'[r] = label /\ job'[r] = j
         /\ \A q \in Request \ {r} : pc'[q] = pc[q] /\ job'[q] = job[q]
  BY DEF Start, Goto, TypeOK, Control

LEMMA GotoType ==
  ASSUME TypeOK, NEW r \in Request, NEW label \in Control, Goto(r, label)
  PROVE  /\ pc' \in [Request -> Control] /\ pc'[r] = label
         /\ \A q \in Request \ {r} : pc'[q] = pc[q]
  BY DEF Goto, TypeOK, Control

LEMMA NewJobType ==
  ASSUME NEW kind \in Kind, NEW t \in Table, NEW by \in Staff \union {Admin, None}
  PROVE  NewJob(kind, t, by) \in Job
  BY DEF NewJob, Job

(* A request that is done relies on nothing.                                *)
LEMMA DoneFits ==
  ASSUME NEW r \in Request, pc'[r] = "done"
  PROVE  Fits(r)'
  BY DEF Fits, JobFits, Opening, Assigning, Closing

-----------------------------------------------------------------------------
(* Steps that write no row of table, table_session, order or staff_user     *)
(* that others rely on                                                      *)

(* Only r moves, and takes only free locks or gives back its own.           *)
Alone(r) ==
    /\ \A q \in Request \ {r} : pc'[q] = pc[q] /\ job'[q] = job[q]
    /\ \A q \in Request \ {r}, x \in Row : lock[x] = q => lock'[x] = q

Others == OrdersSeated /\ OneActiveSession /\ AssigneeExists

LEMMA QuietKeeps ==
  ASSUME IInv, NEW r \in Request, Alone(r), UNCHANGED <<assigned, session, order, role>>
  PROVE  Others' /\ \A q \in Request \ {r} : Respects(q)
  <1>1. Others'
        BY DEF IInv, Others, OrdersSeated, OneActiveSession, AssigneeExists, Active
  <1>2. ASSUME NEW q \in Request \ {r} PROVE Respects(q)
        BY <1>2 DEF Alone, Respects, Row, Active, ActiveSessions, Unpaid
  <1>3. QED  BY <1>1, <1>2

(* The part of each such step that is its own.                              *)
LEMMA ResolveStep ==
  ASSUME IInv, NEW r \in Request, NEW kind \in {"scan", "order"}, NEW t \in Table, Resolve(r, kind, t)
  PROVE  TypeOK' /\ Alone(r) /\ Fits(r)'
  <1>1. CASE Finish(r)
        BY <1>1, FinishType, DoneFits DEF Resolve, IInv, TypeOK, Alone
  <1>2. CASE Start(r, "session", NewJob(kind, t, None))
    <2>1. NewJob(kind, t, None) \in Job  BY NewJobType DEF Kind
    <2>2. "session" \in Control  BY DEF Control
    <2>3. /\ pc' \in [Request -> Control] /\ job' \in [Request -> Job \union {None}]
          /\ pc'[r] = "session" /\ job'[r] = NewJob(kind, t, None)
          /\ \A q \in Request \ {r} : pc'[q] = pc[q] /\ job'[q] = job[q]
          BY <1>2, <2>1, <2>2, StartType DEF IInv
    <2>4. Fits(r)'
          BY <2>1, <2>3 DEF Resolve, IInv, Fits, JobFits, Opening, Assigning, Closing
    <2>5. QED  BY <2>3, <2>4 DEF Resolve, IInv, TypeOK, Alone
  <1>3. QED  BY <1>1, <1>2 DEF Resolve

LEMMA StaffOrderStep ==
  ASSUME IInv, NEW r \in Request, NEW by \in Staff \union {Admin}, NEW t \in Table, StaffOrder(r, t, by)
  PROVE  TypeOK' /\ Alone(r) /\ Fits(r)'
  <1> DEFINE j == [NewJob("staffOrder", t, by) EXCEPT !.waiter = assigned[t]]
  <1>1. CASE Finish(r)
        BY <1>1, FinishType, DoneFits DEF StaffOrder, IInv, TypeOK, Alone
  <1>2. CASE Start(r, "session", j)
    <2>1. assigned[t] \in Staff \union {None}  BY DEF IInv, TypeOK
    <2>2. j \in Job  BY <2>1 DEF NewJob, Job, Kind
    <2>3. "session" \in Control  BY DEF Control
    <2>4. /\ pc' \in [Request -> Control] /\ job' \in [Request -> Job \union {None}]
          /\ pc'[r] = "session" /\ job'[r] = j
          /\ \A q \in Request \ {r} : pc'[q] = pc[q] /\ job'[q] = job[q]
          BY <1>2, <2>2, <2>3, StartType DEF IInv
    <2>5. Fits(r)'
          BY <2>2, <2>4 DEF StaffOrder, IInv, Fits, JobFits, Opening, Assigning, Closing
    <2>6. QED  BY <2>4, <2>5 DEF StaffOrder, IInv, TypeOK, Alone
  <1>3. QED  BY <1>1, <1>2 DEF StaffOrder

(* A scan ends here; an order goes on with the session.                     *)
LEMMA InSessionType ==
  ASSUME IInv, NEW r \in Request, NEW s \in Request, pc[r] \in {"session", "open"}, InSession(r, s)
  PROVE  /\ pc' \in [Request -> Control] /\ job' \in [Request -> Job \union {None}]
         /\ \A q \in Request \ {r} : pc'[q] = pc[q] /\ job'[q] = job[q]
         /\ pc'[r] # "done" => pc'[r] = "insert" /\ job'[r] \in Job /\ job'[r].session = s
  <1> DEFINE j == [job[r] EXCEPT !.session = s]
  <1>1. job[r] \in Job  BY DEF IInv, Fits, JobFits
  <1>2. j \in Job /\ j.session = s  BY <1>1 DEF Job
  <1>3. CASE Finish(r)  BY <1>3, FinishType DEF IInv
  <1>4. CASE Start(r, "insert", j)
        BY <1>2, <1>4, StartType DEF IInv, Control
  <1>5. QED  BY <1>3, <1>4 DEF InSession

LEMMA JoinSessionStep ==
  ASSUME IInv, NEW r \in Request, JoinSession(r)
  PROVE  TypeOK' /\ Alone(r) /\ Fits(r)'
  <1>1. PICK s \in ActiveSessions(job[r].table) : InSession(r, s)  BY DEF JoinSession
  <1>2. s \in Request /\ session[s] # None  BY <1>1 DEF ActiveSessions, Active
  <1>3. /\ pc' \in [Request -> Control] /\ job' \in [Request -> Job \union {None}]
        /\ \A q \in Request \ {r} : pc'[q] = pc[q] /\ job'[q] = job[q]
        /\ pc'[r] # "done" => pc'[r] = "insert" /\ job'[r] \in Job /\ job'[r].session = s
        BY <1>1, <1>2, InSessionType DEF JoinSession
  <1>4. Fits(r)'
        BY <1>2, <1>3 DEF JoinSession, Fits, JobFits, Opening, Assigning, Closing
  <1>5. QED  BY <1>3, <1>4 DEF JoinSession, IInv, TypeOK, Alone

LEMMA NoSessionStep ==
  ASSUME IInv, NEW r \in Request, NoSession(r)
  PROVE  TypeOK' /\ Alone(r) /\ Fits(r)'
  <1>1. job[r] \in Job /\ job[r].table \in Table  BY DEF NoSession, IInv, Fits, JobFits, Job
  <1>2. {job[r].table} \in SUBSET Row  BY <1>1 DEF Row
  <1>3. /\ lock' \in [Row -> Request \union {None}]
        /\ lock'[job[r].table] = r
        /\ \A q \in Request, x \in Row : lock[x] = q => lock'[x] = q
        BY <1>2, LockTakes DEF NoSession, IInv
  <1>4. /\ pc' \in [Request -> Control] /\ pc'[r] = "open"
        /\ \A q \in Request \ {r} : pc'[q] = pc[q]
        BY GotoType DEF NoSession, IInv, Control
  <1>5. Fits(r)'
        BY <1>1, <1>3, <1>4 DEF NoSession, IInv, Fits, JobFits, Opening, Assigning, Closing,
                               ActiveSessions, Active
  <1>6. QED  BY <1>3, <1>4, <1>5 DEF NoSession, IInv, TypeOK, Alone

LEMMA RejectItemsStep ==
  ASSUME IInv, NEW r \in Request, RejectItems(r)
  PROVE  TypeOK' /\ Alone(r) /\ Fits(r)'
  BY FinishType, DoneFits DEF RejectItems, IInv, TypeOK, Alone

(* A call goes on to its session; everyone else is done.                    *)
LEMMA AssignedType ==
  ASSUME IInv, NEW r \in Request, pc[r] \in {"assign", "assignWrite"}, Assigned(r)
  PROVE  /\ pc' \in [Request -> Control] /\ job' \in [Request -> Job \union {None}]
         /\ \A q \in Request \ {r} : pc'[q] = pc[q] /\ job'[q] = job[q]
         /\ pc'[r] # "done" =>
               /\ pc'[r] = "markCalling" /\ job'[r] = job[r] /\ job[r] \in Job
               /\ job[r].session \in Request /\ session[job[r].session] # None
  <1>1. job[r] \in Job  BY DEF IInv, Fits, JobFits
  <1>2. CASE job[r].kind = "call"
    <2>1. job[r].session \in Request /\ session[job[r].session] # None
          BY <1>2 DEF IInv, Fits, JobFits
    <2>2. Goto(r, "markCalling") /\ job' = job  BY <1>2 DEF Assigned
    <2>3. QED  BY <1>1, <2>1, <2>2, GotoType DEF IInv, TypeOK, Control, ClaimsTable
  <1>3. CASE job[r].kind # "call"  BY <1>3, FinishType DEF Assigned, IInv
  <1>4. QED  BY <1>2, <1>3

LEMMA NothingToAssignStep ==
  ASSUME IInv, NEW r \in Request, NothingToAssign(r)
  PROVE  TypeOK' /\ Alone(r) /\ Fits(r)'
  <1>1. /\ pc' \in [Request -> Control] /\ job' \in [Request -> Job \union {None}]
        /\ \A q \in Request \ {r} : pc'[q] = pc[q] /\ job'[q] = job[q]
        /\ pc'[r] # "done" =>
              /\ pc'[r] = "markCalling" /\ job'[r] = job[r] /\ job[r] \in Job
              /\ job[r].session \in Request /\ session[job[r].session] # None
        BY AssignedType DEF NothingToAssign
  <1>2. Fits(r)'
        BY <1>1, DoneFits DEF NothingToAssign, Fits, JobFits, Opening, Assigning, Closing
  <1>3. QED  BY <1>1, <1>2 DEF NothingToAssign, IInv, TypeOK, Alone

LEMMA PickWaiterStep ==
  ASSUME IInv, NEW r \in Request, PickWaiter(r)
  PROVE  TypeOK' /\ Alone(r) /\ Fits(r)'
  <1>1. PICK w \in Waiters : Start(r, "assignWrite", [job[r] EXCEPT !.waiter = w])
        BY DEF PickWaiter
  <1> DEFINE j == [job[r] EXCEPT !.waiter = w]
  <1>2. job[r] \in Job  BY DEF PickWaiter, IInv, Fits, JobFits
  <1>3. w \in Staff  BY DEF Waiters
  <1>4. /\ j \in Job /\ j.waiter = w /\ j.table = job[r].table
        /\ j.kind = job[r].kind /\ j.session = job[r].session
        BY <1>2, <1>3 DEF Job
  <1>5. /\ pc' \in [Request -> Control] /\ job' \in [Request -> Job \union {None}]
        /\ pc'[r] = "assignWrite" /\ job'[r] = j
        /\ \A q \in Request \ {r} : pc'[q] = pc[q] /\ job'[q] = job[q]
        BY <1>1, <1>4, StartType DEF IInv, Control
  <1>6. /\ lock' \in [Row -> Request \union {None}]
        /\ lock'[job[r].table] = r
        /\ \A q \in Request, x \in Row : lock[x] = q => lock'[x] = q
    <2>1. {job[r].table} \in SUBSET Row  BY <1>2 DEF Job, Row
    <2>2. QED  BY <2>1, LockTakes DEF PickWaiter, IInv
  <1>7. Fits(r)'
    <2> HIDE DEF j
    <2>1. QED
          BY <1>3, <1>4, <1>5, <1>6 DEF PickWaiter, IInv, Fits, JobFits, Opening, Assigning, Closing
  <1>8. QED  BY <1>5, <1>6, <1>7 DEF PickWaiter, IInv, TypeOK, Alone

LEMMA CallWaiterStep ==
  ASSUME IInv, NEW r \in Request, NEW o \in Request, CallWaiter(r, o)
  PROVE  TypeOK' /\ Alone(r) /\ Fits(r)'
  <1> DEFINE s     == order[o].session
             t     == session[s].table
             label == IF assigned[t] = None THEN "assign" ELSE "markCalling"
             j     == [NewJob("call", t, None) EXCEPT !.session = s]
  <1>1. s \in Request /\ session[s] # None
        BY DEF CallWaiter, IInv, OrdersSeated, TypeOK, OrderRow
  <1>2. t \in Table  BY <1>1 DEF IInv, TypeOK, SessionRow
  <1>3. j \in Job /\ j.session = s /\ j.kind = "call"
    <2> HIDE DEF s, t
    <2>1. QED  BY <1>1, <1>2 DEF NewJob, Job, Kind
  <1>4. label \in {"assign", "markCalling"} /\ label \in Control  BY DEF Control
  <1>5. Start(r, label, j)  BY DEF CallWaiter
  <1> HIDE DEF s, t, label, j
  <1>6. /\ pc' \in [Request -> Control] /\ job' \in [Request -> Job \union {None}]
        /\ pc'[r] = label /\ job'[r] = j
        /\ \A q \in Request \ {r} : pc'[q] = pc[q] /\ job'[q] = job[q]
        BY <1>3, <1>4, <1>5, StartType DEF IInv
  <1>7. Fits(r)'
        BY <1>1, <1>3, <1>4, <1>6 DEF CallWaiter, Fits, JobFits, Opening, Assigning, Closing
  <1>8. QED  BY <1>6, <1>7 DEF CallWaiter, IInv, TypeOK, Alone

LEMMA CloseLockStep ==
  ASSUME IInv, NEW r \in Request, NEW s \in Request, NEW by \in Staff \union {Admin}, CloseLock(r, s, by)
  PROVE  TypeOK' /\ Alone(r) /\ Fits(r)'
  <1> DEFINE t == session[s].table
             j == [NewJob("close", t, by) EXCEPT !.session = s]
  <1>1. CASE Finish(r) /\ UNCHANGED lock
        BY <1>1, FinishType, DoneFits DEF CloseLock, IInv, TypeOK, Alone
  <1>2. CASE /\ Active(s) /\ MayServe(by, t) /\ Lock(r, CloseLocks(s))
             /\ Start(r, "closeCount", j)
    <2>1. t \in Table  BY DEF CloseLock, IInv, TypeOK, SessionRow
    <2>2. CloseLocks(s) = {s, t} /\ CloseLocks(s) \in SUBSET Row
          BY <2>1 DEF CloseLocks, Row
    <2>3. /\ lock' \in [Row -> Request \union {None}]
          /\ lock'[s] = r /\ lock'[t] = r
          /\ \A q \in Request, x \in Row : lock[x] = q => lock'[x] = q
          BY <1>2, <2>2, LockTakes DEF CloseLock, IInv
    <2> HIDE DEF t
    <2>4. j \in Job /\ j.session = s /\ j.table = t /\ j.by = by
          BY <2>1 DEF NewJob, Job, Kind
    <2> HIDE DEF j
    <2>5. /\ pc' \in [Request -> Control] /\ job' \in [Request -> Job \union {None}]
          /\ pc'[r] = "closeCount" /\ job'[r] = j
          /\ \A q \in Request \ {r} : pc'[q] = pc[q] /\ job'[q] = job[q]
          BY <1>2, <2>4, StartType DEF IInv, Control
    <2>6. Fits(r)'
      <3>1. JobFits(r)' /\ Opening(r)' /\ Assigning(r)'
            BY <2>4, <2>5 DEF CloseLock, JobFits, Opening, Assigning
      <3>2. Closing(r)'
            BY <1>2, <2>3, <2>4, <2>5 DEF CloseLock, Closing, Active, MayServe, t
      <3>3. QED  BY <3>1, <3>2 DEF Fits
    <2>7. QED  BY <2>3, <2>5, <2>6 DEF CloseLock, IInv, TypeOK, Alone
  <1>3. QED  BY <1>1, <1>2 DEF CloseLock

LEMMA CloseCountStep ==
  ASSUME IInv, NEW r \in Request, CloseCount(r)
  PROVE  TypeOK' /\ Alone(r) /\ Fits(r)'
  <1>1. CASE Unpaid(job[r].session) = {}
    <2>1. /\ pc' \in [Request -> Control] /\ pc'[r] = "closeWrite"
          /\ \A q \in Request \ {r} : pc'[q] = pc[q]
          BY <1>1, GotoType DEF CloseCount, IInv, Control
    <2>2. JobFits(r)' /\ Opening(r)' /\ Assigning(r)'
          BY <1>1, <2>1 DEF CloseCount, IInv, Fits, JobFits, Opening, Assigning
    <2>3. Closing(r)'
      <3>1. Closing(r) /\ pc[r] = "closeCount" /\ UNCHANGED <<assigned, session, order, lock, job>>
            BY <1>1 DEF CloseCount, IInv, Fits
      <3>2. Unpaid(job[r].session)' = {}  BY <1>1, <3>1 DEF Unpaid
      <3>3. QED  BY <2>1, <3>1, <3>2 DEF Closing, Active, MayServe
    <2>4. QED  BY <1>1, <2>1, <2>2, <2>3 DEF CloseCount, IInv, TypeOK, Alone, Fits
  <1>2. CASE Unpaid(job[r].session) # {}
        BY <1>2, FinishType, UnlockFrees, DoneFits DEF CloseCount, IInv, TypeOK, Alone
  <1>3. QED  BY <1>1, <1>2

LEMMA HandoffLockStep ==
  ASSUME IInv, NEW r \in Request, NEW t \in Table, NEW w \in Staff, HandoffLock(r, t, w)
  PROVE  TypeOK' /\ Alone(r) /\ Fits(r)'
  <1> DEFINE j == [NewJob("handoff", t, Admin) EXCEPT !.waiter = w]
  <1>1. CASE w \notin Waiters
        BY <1>1, FinishType, DoneFits DEF HandoffLock, IInv, TypeOK, Alone
  <1>2. CASE w \in Waiters
    <2>1. j \in Job /\ j.table = t /\ j.waiter = w  BY DEF NewJob, Job, Kind
    <2>2. Start(r, "handoffWrite", j) /\ Lock(r, {t})  BY <1>2 DEF HandoffLock
    <2> HIDE DEF j
    <2>3. /\ pc' \in [Request -> Control] /\ job' \in [Request -> Job \union {None}]
          /\ pc'[r] = "handoffWrite" /\ job'[r] = j
          /\ \A q \in Request \ {r} : pc'[q] = pc[q] /\ job'[q] = job[q]
          BY <2>1, <2>2, StartType DEF IInv, Control
    <2>4. /\ lock' \in [Row -> Request \union {None}] /\ lock'[t] = r
          /\ \A q \in Request, x \in Row : lock[x] = q => lock'[x] = q
      <3>1. {t} \in SUBSET Row  BY DEF Row
      <3>2. QED  BY <2>2, <3>1, LockTakes DEF HandoffLock, IInv
    <2>5. Fits(r)'
          BY <2>1, <2>3, <2>4 DEF HandoffLock, Fits, JobFits, Opening, Assigning, Closing
    <2>6. QED  BY <2>3, <2>4, <2>5 DEF HandoffLock, IInv, TypeOK, Alone
  <1>3. QED  BY <1>1, <1>2

LEMMA RetireCheckStep ==
  ASSUME IInv, NEW r \in Request, NEW t \in Table, NEW how \in {"remove", "regenerate"},
         RetireCheck(r, t, how)
  PROVE  TypeOK' /\ Alone(r) /\ Fits(r)'
  <1> DEFINE j == NewJob("retire", t, Admin)
  <1>1. CASE Finish(r)
        BY <1>1, FinishType, DoneFits DEF RetireCheck, IInv, TypeOK, Alone
  <1>2. CASE Start(r, how, j)
    <2>1. j \in Job /\ how \in Control  BY NewJobType DEF Kind, Control
    <2> HIDE DEF j
    <2>2. /\ pc' \in [Request -> Control] /\ job' \in [Request -> Job \union {None}]
          /\ pc'[r] = how /\ job'[r] = j
          /\ \A q \in Request \ {r} : pc'[q] = pc[q] /\ job'[q] = job[q]
          BY <1>2, <2>1, StartType DEF IInv
    <2>3. Fits(r)'
          BY <2>1, <2>2 DEF RetireCheck, Fits, JobFits, Opening, Assigning, Closing
    <2>4. QED  BY <2>2, <2>3 DEF RetireCheck, IInv, TypeOK, Alone
  <1>3. QED  BY <1>1, <1>2 DEF RetireCheck

LEMMA RetireStep ==
  ASSUME IInv, NEW r \in Request, Remove(r) \/ Regenerate(r)
  PROVE  TypeOK' /\ Alone(r) /\ Fits(r)'
  <1>1. CASE Remove(r)
        BY <1>1, FinishType, DoneFits DEF Remove, IInv, TypeOK, Alone
  <1>2. CASE Regenerate(r)
    <2>1. job[r].table \in Table  BY <1>2 DEF Regenerate, IInv, Fits, JobFits, Job
    <2>2. code' \in [Table -> Nat]  BY <1>2, <2>1 DEF Regenerate, IInv, TypeOK
    <2>3. QED  BY <1>2, <2>2, FinishType, DoneFits DEF Regenerate, IInv, TypeOK, Alone
  <1>3. QED  BY <1>1, <1>2

LEMMA RollbackStep ==
  ASSUME IInv, NEW r \in Request, Rollback(r)
  PROVE  TypeOK' /\ Alone(r) /\ Fits(r)'
  BY FinishType, UnlockFrees, DoneFits DEF Rollback, IInv, TypeOK, Alone

-----------------------------------------------------------------------------
(* Steps that write table_session, order, table.assigned_waiter_id or       *)
(* staff_user                                                               *)

LEMMA OpenSessionStep ==
  ASSUME IInv, NEW r \in Request, OpenSession(r)
  PROVE  TypeOK' /\ Others' /\ Keeps(r)
  <1> DEFINE t   == job[r].table
             row == [table |-> t, status |-> "active", calling |-> FALSE]
  <1>1. t \in Table /\ session[r] = None /\ lock[t] = r /\ ActiveSessions(t) = {}
        BY DEF OpenSession, IInv, Fits, JobFits, Opening, Job
  <1>2. session' = [session EXCEPT ![r] = row]  BY DEF OpenSession
  <1>3. row \in SessionRow /\ row.table = t /\ row.status = "active" /\ row # None
    <2>1. row \in SessionRow /\ row.table = t /\ row.status = "active"  BY <1>1 DEF SessionRow
    <2> HIDE DEF row
    <2>2. QED  BY <2>1, NoneIsNoRow
  <1>a. UNCHANGED <<removed, code, assigned, order, role>>  BY DEF OpenSession
  <1> HIDE DEF t, row
  <1>4. /\ pc' \in [Request -> Control] /\ job' \in [Request -> Job \union {None}]
        /\ \A q \in Request \ {r} : pc'[q] = pc[q] /\ job'[q] = job[q]
        /\ pc'[r] # "done" => pc'[r] = "insert" /\ job'[r] \in Job /\ job'[r].session = r
        BY InSessionType DEF OpenSession
  <1>5. /\ lock' \in [Row -> Request \union {None}]
        /\ \A q \in Request \ {r}, x \in Row : lock[x] = q => lock'[x] = q
        BY UnlockFrees DEF OpenSession, IInv
  <1>6. TypeOK'
        BY <1>2, <1>3, <1>4, <1>5, <1>a DEF IInv, TypeOK
  <1>7. /\ session'[r] = row /\ \A s \in Request \ {r} : session'[s] = session[s]
        /\ assigned' = assigned /\ order' = order /\ role' = role
        BY <1>2 DEF OpenSession, IInv, TypeOK
  <1>8. Others'
    <2>1. OrdersSeated'
          BY <1>3, <1>7 DEF IInv, OrdersSeated, TypeOK, OrderRow
    <2>2. OneActiveSession'
          BY <1>1, <1>3, <1>7 DEF IInv, OneActiveSession, Active, ActiveSessions
    <2>3. AssigneeExists'  BY <1>7 DEF IInv, AssigneeExists
    <2>4. QED  BY <2>1, <2>2, <2>3 DEF Others
  <1>9. ASSUME NEW q \in Request \ {r} PROVE Respects(q)
        BY <1>1, <1>3, <1>4, <1>5, <1>7, <1>9
           DEF Respects, Row, Active, ActiveSessions, Unpaid
  <1>10. Fits(r)'
        BY <1>3, <1>4, <1>7, DoneFits DEF Fits, JobFits, Opening, Assigning, Closing
  <1>11. QED  BY <1>6, <1>8, <1>9, <1>10 DEF Keeps

LEMMA InsertOrderStep ==
  ASSUME IInv, NEW r \in Request, InsertOrder(r)
  PROVE  TypeOK' /\ Others' /\ Keeps(r)
  <1> DEFINE s   == job[r].session
             row == [session |-> s, paid |-> FALSE]
  <1>1. job[r] \in Job /\ s \in Request /\ session[s] # None /\ lock[s] = None
        BY DEF InsertOrder, IInv, Fits, JobFits, Free
  <1>2. order' = [order EXCEPT ![r] = row]  BY DEF InsertOrder
  <1>3. row \in OrderRow /\ row.session = s  BY <1>1 DEF OrderRow
  <1>4. /\ pc' \in [Request -> Control] /\ job' \in [Request -> Job \union {None}]
        /\ \A q \in Request \ {r} : pc'[q] = pc[q] /\ job'[q] = job[q]
        /\ pc'[r] # "done" =>
              /\ pc'[r] \in {"direct", "assign"} /\ job'[r] = job[r]
              /\ pc'[r] = "direct" => job[r].by \in Staff
    <2>1. CASE Finish(r)  BY <2>1, FinishType DEF IInv
    <2>2. CASE Goto(r, IF ClaimsTable(job[r].by) THEN "direct" ELSE "assign") /\ UNCHANGED job
          BY <2>2, GotoType DEF IInv, TypeOK, Control, ClaimsTable
    <2>3. QED  BY <2>1, <2>2 DEF InsertOrder
  <1>5. UNCHANGED <<removed, code, assigned, session, role, lock>>  BY DEF InsertOrder
  <1> HIDE DEF s, row
  <1>6. TypeOK'  BY <1>2, <1>3, <1>4, <1>5 DEF IInv, TypeOK
  <1>7. order'[r] = row /\ \A o \in Request \ {r} : order'[o] = order[o]
        BY <1>2 DEF IInv, TypeOK
  <1>8. Others'
        BY <1>1, <1>3, <1>5, <1>7
           DEF IInv, Others, OrdersSeated, OneActiveSession, AssigneeExists, Active
  <1>9. ASSUME NEW q \in Request \ {r} PROVE Respects(q)
    <2>1. ASSUME NEW x \in Request, lock[x] = q PROVE Unpaid(x)' \subseteq Unpaid(x)
      <3>1. x # s  BY <1>1, <2>1, FloorAssumption
      <3>2. QED  BY <1>3, <1>7, <3>1 DEF Unpaid
    <2>2. QED  BY <1>4, <1>5, <2>1 DEF Respects, Row, Active, ActiveSessions
  <1>10. Fits(r)'
    <2>1. CASE pc'[r] = "done"  BY <2>1, DoneFits
    <2>2. CASE pc'[r] # "done"
      <3>1. JobFits(r)'  BY <1>1, <1>4, <1>5, <2>2 DEF JobFits, s
      <3>2. Opening(r)' /\ Assigning(r)' /\ Closing(r)'
            BY <1>4, <2>2 DEF Opening, Assigning, Closing
      <3>3. QED  BY <3>1, <3>2 DEF Fits
    <2>3. QED  BY <2>1, <2>2
  <1>11. QED  BY <1>6, <1>8, <1>9, <1>10 DEF Keeps

(* A step of r that writes table.assigned_waiter_id only: of one table that *)
(* no other request holds, to somebody who exists or to nobody.             *)
LEMMA AssignKeeps ==
  ASSUME IInv, NEW r \in Request, Alone(r), UNCHANGED <<session, order, role>>,
         NEW t \in Table, NEW w \in Staff, role[w] # "gone", lock[t] \in {r, None},
         assigned' = [assigned EXCEPT ![t] = w]
  PROVE  /\ Others' /\ \A q \in Request \ {r} : Respects(q)
         /\ assigned' \in [Table -> Staff \union {None}]
  <1>1. assigned'[t] = w /\ \A x \in Table \ {t} : assigned'[x] = assigned[x]
        BY DEF IInv, TypeOK
  <1>2. Others'
        BY <1>1 DEF IInv, Others, OrdersSeated, OneActiveSession, AssigneeExists, Active
  <1>3. ASSUME NEW q \in Request \ {r} PROVE Respects(q)
        BY <1>1, <1>3, FloorAssumption DEF Alone, Respects, Row, Active, ActiveSessions, Unpaid
  <1>4. QED  BY <1>2, <1>3 DEF IInv, TypeOK

LEMMA AssignPickedStep ==
  ASSUME IInv, NEW r \in Request, AssignPicked(r)
  PROVE  TypeOK' /\ Others' /\ Keeps(r)
  <1>1. /\ pc' \in [Request -> Control] /\ job' \in [Request -> Job \union {None}]
        /\ \A q \in Request \ {r} : pc'[q] = pc[q] /\ job'[q] = job[q]
        /\ pc'[r] # "done" =>
              /\ pc'[r] = "markCalling" /\ job'[r] = job[r] /\ job[r] \in Job
              /\ job[r].session \in Request /\ session[job[r].session] # None
        BY AssignedType DEF AssignPicked
  <1>2. /\ lock' \in [Row -> Request \union {None}]
        /\ \A q \in Request \ {r}, x \in Row : lock[x] = q => lock'[x] = q
        BY UnlockFrees DEF AssignPicked, IInv
  <1>3. job[r].table \in Table /\ job[r].waiter \in Staff /\ lock[job[r].table] = r
        BY DEF AssignPicked, IInv, Fits, JobFits, Assigning, Job
  <1>4. /\ Others' /\ \A q \in Request \ {r} : Respects(q)
        /\ assigned' \in [Table -> Staff \union {None}]
    <2>1. Alone(r)  BY <1>1, <1>2 DEF Alone
    <2>2. /\ UNCHANGED <<session, order, role>> /\ role[job[r].waiter] # "gone"
          /\ assigned' = [assigned EXCEPT ![job[r].table] = job[r].waiter]
          BY <1>3 DEF AssignPicked, Assignable, Gone
    <2>3. QED  BY <1>3, <2>1, <2>2, AssignKeeps
  <1>5. TypeOK'  BY <1>1, <1>2, <1>4 DEF AssignPicked, IInv, TypeOK
  <1>6. Fits(r)'
        BY <1>1, DoneFits DEF AssignPicked, Fits, JobFits, Opening, Assigning, Closing
  <1>7. QED  BY <1>4, <1>5, <1>6 DEF Keeps

LEMMA AssignDirectlyStep ==
  ASSUME IInv, NEW r \in Request, AssignDirectly(r)
  PROVE  TypeOK' /\ Others' /\ Keeps(r)
  <1>1. /\ pc' \in [Request -> Control] /\ job' \in [Request -> Job \union {None}]
        /\ pc'[r] = "done" /\ \A q \in Request \ {r} : pc'[q] = pc[q] /\ job'[q] = job[q]
        BY FinishType DEF AssignDirectly, IInv
  <1>2. Fits(r)'  BY <1>1, DoneFits
  <1>3. Alone(r)  BY <1>1 DEF AssignDirectly, Alone
  <1>4. CASE UNCHANGED assigned
    <2>1. Others' /\ \A q \in Request \ {r} : Respects(q)
          BY <1>3, <1>4, QuietKeeps DEF AssignDirectly
    <2>2. QED  BY <1>1, <1>2, <1>4, <2>1 DEF AssignDirectly, IInv, TypeOK, Keeps
  <1>5. CASE /\ Assignable(job[r].by)
             /\ assigned' = [assigned EXCEPT ![job[r].table] = job[r].by]
    <2>1. job[r].table \in Table /\ job[r].by \in Staff /\ lock[job[r].table] = None
          BY DEF AssignDirectly, IInv, Fits, JobFits, Job, Free
    <2>2. /\ Others' /\ \A q \in Request \ {r} : Respects(q)
          /\ assigned' \in [Table -> Staff \union {None}]
          BY <1>3, <1>5, <2>1, AssignKeeps DEF AssignDirectly, Assignable, Gone
    <2>3. QED  BY <1>1, <1>2, <2>2 DEF AssignDirectly, IInv, TypeOK, Keeps
  <1>6. QED  BY <1>4, <1>5 DEF AssignDirectly

LEMMA HandoffWriteStep ==
  ASSUME IInv, NEW r \in Request, HandoffWrite(r)
  PROVE  TypeOK' /\ Others' /\ Keeps(r)
  <1>1. /\ pc' \in [Request -> Control] /\ job' \in [Request -> Job \union {None}]
        /\ pc'[r] = "done" /\ \A q \in Request \ {r} : pc'[q] = pc[q] /\ job'[q] = job[q]
        BY FinishType DEF HandoffWrite, IInv
  <1>2. /\ lock' \in [Row -> Request \union {None}]
        /\ \A q \in Request \ {r}, x \in Row : lock[x] = q => lock'[x] = q
        BY UnlockFrees DEF HandoffWrite, IInv
  <1>3. job[r].table \in Table /\ job[r].waiter \in Staff /\ lock[job[r].table] = r
        BY DEF HandoffWrite, IInv, Fits, JobFits, Assigning, Job
  <1>4. /\ Others' /\ \A q \in Request \ {r} : Respects(q)
        /\ assigned' \in [Table -> Staff \union {None}]
    <2>1. Alone(r)  BY <1>1, <1>2 DEF Alone
    <2>2. /\ UNCHANGED <<session, order, role>> /\ role[job[r].waiter] # "gone"
          /\ assigned' = [assigned EXCEPT ![job[r].table] = job[r].waiter]
          BY <1>3 DEF HandoffWrite, Assignable, Gone
    <2>3. QED  BY <1>3, <2>1, <2>2, AssignKeeps
  <1>5. TypeOK'  BY <1>1, <1>2, <1>4 DEF HandoffWrite, IInv, TypeOK
  <1>6. QED  BY <1>1, <1>4, <1>5, DoneFits DEF Keeps

(* A call, or its acknowledgement, changes nothing of a session that        *)
(* anybody relies on.                                                       *)
SameSessions ==
    /\ session' \in [Request -> SessionRow \union {None}]
    /\ \A s \in Request :
          /\ session'[s] = None <=> session[s] = None
          /\ session[s] # None => /\ session'[s].table = session[s].table
                                  /\ session'[s].status = session[s].status

LEMMA CallingSame ==
  ASSUME TypeOK, NEW s \in Request, session[s] # None, NEW b \in BOOLEAN,
         session' = [session EXCEPT ![s].calling = b]
  PROVE  SameSessions
  <1> DEFINE row == [session[s] EXCEPT !.calling = b]
  <1>1. session[s] \in SessionRow  BY DEF TypeOK
  <1>2. row \in SessionRow /\ row.table = session[s].table /\ row.status = session[s].status
        BY <1>1 DEF SessionRow
  <1>3. session' = [session EXCEPT ![s] = row]  BY DEF TypeOK
  <1> HIDE DEF row
  <1>4. row # None  BY <1>2, NoneIsNoRow
  <1>5. QED  BY <1>2, <1>3, <1>4 DEF SameSessions, TypeOK

LEMMA SameSessionsKeep ==
  ASSUME IInv, SameSessions, UNCHANGED <<assigned, order, role, lock>>
  PROVE  /\ Others'
         /\ \A q \in Request : pc'[q] = pc[q] /\ job'[q] = job[q] => Respects(q)
  <1>1. \A s \in Request : Active(s)' <=> Active(s)  BY DEF SameSessions, Active
  <1>2. OrdersSeated'  BY DEF IInv, OrdersSeated, SameSessions, TypeOK, OrderRow
  <1>3. OneActiveSession'
        BY <1>1 DEF IInv, OneActiveSession, SameSessions, Active
  <1>4. AssigneeExists'  BY DEF IInv, AssigneeExists
  <1>5. ASSUME NEW q \in Request, pc'[q] = pc[q], job'[q] = job[q] PROVE Respects(q)
    <2>1. \A t \in Table : ActiveSessions(t)' \subseteq ActiveSessions(t)
          BY <1>1 DEF ActiveSessions, SameSessions, Active
    <2>2. QED  BY <1>1, <1>5, <2>1 DEF Respects, SameSessions, Row, Unpaid
  <1>6. QED  BY <1>2, <1>3, <1>4, <1>5 DEF Others

LEMMA MarkCallingStep ==
  ASSUME IInv, NEW r \in Request, MarkCalling(r)
  PROVE  TypeOK' /\ Others' /\ Keeps(r)
  <1> DEFINE s == job[r].session
  <1>1. s \in Request /\ session[s] # None  BY DEF MarkCalling, IInv, Fits, JobFits
  <1>2. /\ pc' \in [Request -> Control] /\ job' \in [Request -> Job \union {None}]
        /\ pc'[r] = "done" /\ \A q \in Request \ {r} : pc'[q] = pc[q] /\ job'[q] = job[q]
        BY FinishType DEF MarkCalling, IInv
  <1>3. session' = [session EXCEPT ![s].calling = TRUE] /\ UNCHANGED <<removed, code, assigned, order, role, lock>>
        BY DEF MarkCalling
  <1> HIDE DEF s
  <1>4. SameSessions  BY <1>1, <1>3, CallingSame DEF IInv
  <1>5. Others' /\ \A q \in Request \ {r} : Respects(q)
        BY <1>2, <1>3, <1>4, SameSessionsKeep
  <1>6. TypeOK'  BY <1>2, <1>3, <1>4 DEF SameSessions, IInv, TypeOK
  <1>7. QED  BY <1>2, <1>5, <1>6, DoneFits DEF Keeps

LEMMA CloseWriteStep ==
  ASSUME IInv, NEW r \in Request, CloseWrite(r)
  PROVE  TypeOK' /\ Others' /\ Keeps(r)
  <1> DEFINE s   == job[r].session
             t   == job[r].table
             row == [session[s] EXCEPT !.status = "closed"]
  <1>1. /\ s \in Request /\ t \in Table /\ session[s] \in SessionRow
        /\ lock[s] = r /\ lock[t] = r
    <2>1. s \in Request /\ t \in Table /\ lock[s] = r /\ lock[t] = r /\ session[s] # None
          BY DEF CloseWrite, IInv, Fits, JobFits, Closing, Job, Active
    <2>2. QED  BY <2>1 DEF IInv, TypeOK
  <1>2. row \in SessionRow /\ row.table = session[s].table /\ row.status = "closed"
        BY <1>1 DEF SessionRow
  <1>3. /\ session' = [session EXCEPT ![s] = row]
        /\ assigned' = [assigned EXCEPT ![t] = None]
        /\ UNCHANGED <<removed, code, order, role>>
        BY DEF CloseWrite, IInv, TypeOK
  <1>4. /\ pc' \in [Request -> Control] /\ job' \in [Request -> Job \union {None}]
        /\ pc'[r] = "done" /\ \A q \in Request \ {r} : pc'[q] = pc[q] /\ job'[q] = job[q]
        BY FinishType DEF CloseWrite, IInv
  <1>5. /\ lock' \in [Row -> Request \union {None}]
        /\ \A q \in Request \ {r}, x \in Row : lock[x] = q => lock'[x] = q
        BY UnlockFrees DEF CloseWrite, IInv
  <1>6. row # None
    <2> HIDE DEF row
    <2>1. QED  BY <1>2, NoneIsNoRow
  <1> HIDE DEF s, t, row
  <1>7. /\ session'[s] = row /\ \A x \in Request \ {s} : session'[x] = session[x]
        /\ assigned'[t] = None /\ \A x \in Table \ {t} : assigned'[x] = assigned[x]
        BY <1>1, <1>3 DEF IInv, TypeOK
  <1>8. TypeOK'  BY <1>1, <1>2, <1>3, <1>4, <1>5 DEF IInv, TypeOK
  <1>9. Others'
    <2>1. OrdersSeated'  BY <1>3, <1>6, <1>7 DEF IInv, OrdersSeated, TypeOK, OrderRow
    <2>2. OneActiveSession'
          BY <1>2, <1>7 DEF IInv, OneActiveSession, Active
    <2>3. AssigneeExists'  BY <1>3, <1>7 DEF IInv, AssigneeExists
    <2>4. QED  BY <2>1, <2>2, <2>3 DEF Others
  <1>10. ASSUME NEW q \in Request \ {r} PROVE Respects(q)
    <2>1. ASSUME NEW x \in Table, lock[x] = q
          PROVE  /\ assigned'[x] \in {assigned[x], None}
                 /\ ActiveSessions(x)' \subseteq ActiveSessions(x)
          BY <1>2, <1>7 DEF ActiveSessions, Active
    <2>2. ASSUME NEW x \in Request, lock[x] = q
          PROVE  (Active(x) => Active(x)') /\ Unpaid(x)' \subseteq Unpaid(x)
          BY <1>1, <1>3, <1>7, <1>10, <2>2 DEF Active, Unpaid
    <2>3. \A x \in Request : session[x] # None => session'[x] # None /\ session'[x].table = session[x].table
          BY <1>2, <1>6, <1>7
    <2>4. session[q] = None => session'[q] = None
          BY <1>1, <1>7, NoneIsNoRow
    <2>5. QED  BY <1>4, <1>5, <2>1, <2>2, <2>3, <2>4 DEF Respects
  <1>11. QED  BY <1>4, <1>8, <1>9, <1>10, DoneFits DEF Keeps

(* Requests of a single statement.                                          *)
LEMMA EditStep ==
  ASSUME IInv, Edit
  PROVE  TypeOK' /\ Others' /\ \A q \in Request : Respects(q)
  <1>1. ASSUME NEW o \in Request, MarkPaid(o)
        PROVE  TypeOK' /\ Others' /\ \A q \in Request : Respects(q)
    <2> DEFINE row == [order[o] EXCEPT !.paid = TRUE]
    <2>1. order[o] \in OrderRow  BY <1>1 DEF MarkPaid, IInv, TypeOK
    <2>2. row \in OrderRow /\ row.session = order[o].session /\ row.paid = TRUE
          BY <2>1 DEF OrderRow
    <2>3. order' = [order EXCEPT ![o] = row]  BY <1>1 DEF MarkPaid, IInv, TypeOK
    <2> HIDE DEF row
    <2>4. UNCHANGED <<removed, code, assigned, session, role, lock, pc, job>>
          BY <1>1 DEF MarkPaid
    <2>5. TypeOK'  BY <2>2, <2>3, <2>4 DEF IInv, TypeOK
    <2>6. order'[o] = row /\ \A x \in Request \ {o} : order'[x] = order[x]
          BY <2>3 DEF IInv, TypeOK
    <2>7. Others'
          BY <2>2, <2>4, <2>6, <1>1
             DEF MarkPaid, IInv, Others, OrdersSeated, OneActiveSession, AssigneeExists, Active
    <2>8. ASSUME NEW q \in Request PROVE Respects(q)
      <3>1. \A x \in Request : Unpaid(x)' \subseteq Unpaid(x)
            BY <2>2, <2>6 DEF Unpaid
      <3>2. QED  BY <2>4, <3>1 DEF Respects, Active, ActiveSessions
    <2>9. QED  BY <2>5, <2>7, <2>8
  <1>2. ASSUME NEW s \in Request, Acknowledge(s)
        PROVE  TypeOK' /\ Others' /\ \A q \in Request : Respects(q)
    <2>1. SameSessions  BY <1>2, CallingSame DEF Acknowledge, IInv
    <2>2. UNCHANGED <<removed, code, assigned, order, role, lock, pc, job>>
          BY <1>2 DEF Acknowledge
    <2>3. QED  BY <2>1, <2>2, SameSessionsKeep DEF SameSessions, IInv, TypeOK
  <1>3. ASSUME NEW w \in Staff, NEW to \in {"waiter", "other"}, SetRole(w, to)
        PROVE  TypeOK' /\ Others' /\ \A q \in Request : Respects(q)
    <2>1. UNCHANGED <<removed, code, assigned, session, order, lock, pc, job>>
          BY <1>3 DEF SetRole
    <2>2. role' \in [Staff -> {"waiter", "other", "gone"}]
          /\ \A x \in Staff : role[x] # "gone" => role'[x] # "gone"
          BY <1>3 DEF SetRole, IInv, TypeOK
    <2>3. TypeOK'  BY <2>1, <2>2 DEF IInv, TypeOK
    <2>4. Others'
      <3>1. AssigneeExists'
            BY <2>1, <2>2 DEF IInv, AssigneeExists, TypeOK
      <3>2. OrdersSeated' /\ OneActiveSession'
            BY <2>1 DEF IInv, OrdersSeated, OneActiveSession, Active
      <3>3. QED  BY <3>1, <3>2 DEF Others
    <2>5. \A q \in Request : Respects(q)
          BY <2>1 DEF Respects, Active, ActiveSessions, Unpaid
    <2>6. QED  BY <2>3, <2>4, <2>5
  <1>4. ASSUME NEW w \in Staff, DeleteStaff(w)
        PROVE  TypeOK' /\ Others' /\ \A q \in Request : Respects(q)
    <2>1. /\ UNCHANGED <<removed, code, session, order, lock, pc, job>>
          /\ role' = [role EXCEPT ![w] = "gone"]
          BY <1>4 DEF DeleteStaff
    <2>2. /\ assigned' \in [Table -> Staff \union {None}]
          /\ \A t \in Table : assigned'[t] = IF assigned[t] = w THEN None ELSE assigned[t]
          BY <1>4 DEF DeleteStaff, ReleaseTables, TablesOf, IInv, TypeOK
    <2>3. TypeOK'  BY <2>1, <2>2 DEF IInv, TypeOK
    <2>4. Others'
      <3>1. AssigneeExists'
            BY <2>1, <2>2 DEF IInv, AssigneeExists, TypeOK
      <3>2. OrdersSeated' /\ OneActiveSession'
            BY <2>1 DEF IInv, OrdersSeated, OneActiveSession, Active
      <3>3. QED  BY <3>1, <3>2 DEF Others
    <2>5. \A q \in Request : Respects(q)
          BY <2>1, <2>2 DEF Respects, Active, ActiveSessions, Unpaid
    <2>6. QED  BY <2>3, <2>4, <2>5
  <1>5. QED  BY <1>1, <1>2, <1>3, <1>4 DEF Edit

-----------------------------------------------------------------------------
(* The invariant is inductive *)

(* Steps that write nothing others rely on.                                 *)
Quiet(r) == TypeOK' /\ Alone(r) /\ Fits(r)' /\ UNCHANGED <<assigned, session, order, role>>

LEMMA QuietStep ==
  ASSUME IInv, NEW r \in Request, Quiet(r)
  PROVE  TypeOK' /\ Others' /\ Keeps(r)
  BY QuietKeeps DEF Quiet, Keeps

LEMMA BeginStep ==
  ASSUME IInv, NEW r \in Request, Begin(r)
  PROVE  TypeOK' /\ Others' /\ Keeps(r)
  <1>1. ASSUME NEW t \in Table, NEW kind \in {"scan", "order"}, Resolve(r, kind, t) PROVE Quiet(r)
        BY <1>1, ResolveStep DEF Resolve, Quiet
  <1>2. ASSUME NEW t \in Table, NEW by \in Staff \union {Admin}, StaffOrder(r, t, by) PROVE Quiet(r)
        BY <1>2, StaffOrderStep DEF StaffOrder, Quiet
  <1>3. ASSUME NEW t \in Table, NEW w \in Staff, HandoffLock(r, t, w) PROVE Quiet(r)
        BY <1>3, HandoffLockStep DEF HandoffLock, Quiet
  <1>4. ASSUME NEW t \in Table, NEW how \in {"remove", "regenerate"}, RetireCheck(r, t, how) PROVE Quiet(r)
        BY <1>4, RetireCheckStep DEF RetireCheck, Quiet
  <1>5. ASSUME NEW o \in Request, CallWaiter(r, o) PROVE Quiet(r)
    <2>1. TypeOK' /\ Alone(r) /\ Fits(r)'  BY <1>5, CallWaiterStep
    <2>2. UNCHANGED <<assigned, session, order, role>>  BY <1>5 DEF CallWaiter
    <2>3. QED  BY <2>1, <2>2 DEF Quiet
  <1>6. ASSUME NEW s \in Request, NEW by \in Staff \union {Admin}, CloseLock(r, s, by) PROVE Quiet(r)
    <2>1. TypeOK' /\ Alone(r) /\ Fits(r)'  BY <1>6, CloseLockStep
    <2>2. UNCHANGED <<assigned, session, order, role>>  BY <1>6 DEF CloseLock
    <2>3. QED  BY <2>1, <2>2 DEF Quiet
  <1>7. QED  BY <1>1, <1>2, <1>3, <1>4, <1>5, <1>6, QuietStep DEF Begin

LEMMA ContinueStep ==
  ASSUME IInv, NEW r \in Request, Continue(r)
  PROVE  TypeOK' /\ Others' /\ Keeps(r)
  <1>1. CASE JoinSession(r)  BY <1>1, JoinSessionStep, QuietStep DEF JoinSession, Quiet
  <1>2. CASE NoSession(r)  BY <1>2, NoSessionStep, QuietStep DEF NoSession, Quiet
  <1>3. CASE RejectItems(r)  BY <1>3, RejectItemsStep, QuietStep DEF RejectItems, Quiet
  <1>4. CASE NothingToAssign(r)
        BY <1>4, NothingToAssignStep, QuietStep DEF NothingToAssign, Quiet
  <1>5. CASE PickWaiter(r)
    <2>1. UNCHANGED <<assigned, session, order, role>>  BY <1>5 DEF PickWaiter
    <2>2. QED  BY <1>5, <2>1, PickWaiterStep, QuietStep DEF Quiet
  <1>6. CASE CloseCount(r)
    <2>1. UNCHANGED <<assigned, session, order, role>>  BY <1>6 DEF CloseCount
    <2>2. QED  BY <1>6, <2>1, CloseCountStep, QuietStep DEF Quiet
  <1>7. CASE Remove(r) \/ Regenerate(r)
    <2>1. UNCHANGED <<assigned, session, order, role>>  BY <1>7 DEF Remove, Regenerate
    <2>2. QED  BY <1>7, <2>1, RetireStep, QuietStep DEF Quiet
  <1>8. CASE Rollback(r)
    <2>1. UNCHANGED <<assigned, session, order, role>>  BY <1>8 DEF Rollback
    <2>2. QED  BY <1>8, <2>1, RollbackStep, QuietStep DEF Quiet
  <1>9. QED
        BY <1>1, <1>2, <1>3, <1>4, <1>5, <1>6, <1>7, <1>8, OpenSessionStep, InsertOrderStep,
           AssignPickedStep, AssignDirectlyStep, MarkCallingStep, CloseWriteStep, HandoffWriteStep
           DEF Continue

LEMMA InvInit == Init => IInv
  <1> SUFFICES ASSUME Init PROVE IInv  OBVIOUS
  <1>1. TypeOK  BY DEF Init, TypeOK, Control
  <1>2. OrdersSeated /\ OneActiveSession /\ AssigneeExists
        BY DEF Init, OrdersSeated, OneActiveSession, AssigneeExists, Active
  <1>3. \A r \in Request : Fits(r)
        BY DEF Init, Fits, JobFits, Opening, Assigning, Closing
  <1>4. QED  BY <1>1, <1>2, <1>3 DEF IInv

LEMMA InvNext == IInv /\ [Next]_vars => IInv'
  <1> SUFFICES ASSUME IInv, [Next]_vars PROVE IInv'  OBVIOUS
  <1>1. ASSUME NEW r \in Request, Begin(r) \/ Continue(r) PROVE IInv'
    <2>1. TypeOK' /\ Others' /\ Keeps(r)  BY <1>1, BeginStep, ContinueStep
    <2>2. ASSUME NEW q \in Request PROVE Fits(q)'
      <3>1. CASE q = r  BY <2>1, <3>1 DEF Keeps
      <3>2. CASE q # r  BY <2>1, <3>2, RespectsKeepsFit DEF Keeps, IInv
      <3>3. QED  BY <3>1, <3>2
    <2>3. QED  BY <2>1, <2>2 DEF IInv, Others
  <1>2. CASE Edit
    <2>1. TypeOK' /\ Others' /\ \A q \in Request : Respects(q)  BY <1>2, EditStep
    <2>2. \A q \in Request : Fits(q)'  BY <2>1, RespectsKeepsFit DEF IInv
    <2>3. QED  BY <2>1, <2>2 DEF IInv, Others
  <1>3. CASE UNCHANGED vars
    <2>1. TypeOK'  BY <1>3 DEF vars, IInv, TypeOK
    <2>2. Others'
          BY <1>3 DEF vars, IInv, Others, OrdersSeated, OneActiveSession, AssigneeExists, Active
    <2>3. ASSUME NEW q \in Request PROVE Fits(q)'
      <3>1. Respects(q)  BY <1>3 DEF vars, Respects, Active, ActiveSessions, Unpaid
      <3>2. QED  BY <3>1, RespectsKeepsFit DEF IInv
    <2>4. QED  BY <2>1, <2>2, <2>3 DEF IInv, Others
  <1>4. QED  BY <1>1, <1>2, <1>3 DEF Next, Quiescent

THEOREM Invariant == Spec => []IInv
  BY InvInit, InvNext, PTL DEF Spec

-----------------------------------------------------------------------------
(* What follows *)

(* The variables have their types.                                          *)
THEOREM TypeCorrect == Spec => []TypeOK
  <1>1. IInv => TypeOK  BY DEF IInv
  <1>2. QED  BY <1>1, Invariant, PTL

(* A table never has two active sessions, whoever scans or orders at the    *)
(* same moment.                                                             *)
THEOREM OneParty == Spec => []OneActiveSession
  <1>1. IInv => OneActiveSession  BY DEF IInv
  <1>2. QED  BY <1>1, Invariant, PTL

(* A table's waiter exists, whoever is deleted meanwhile.                   *)
THEOREM WaiterExists == Spec => []AssigneeExists
  <1>1. IInv => AssigneeExists  BY DEF IInv
  <1>2. QED  BY <1>1, Invariant, PTL

(* A closing waiter may still close when the close commits.                 *)
THEOREM StillMayClose == Spec => []CloserMayClose
  <1>1. IInv => CloserMayClose  BY DEF IInv, Fits, Closing, CloserMayClose
  <1>2. QED  BY <1>1, Invariant, PTL

(* A session closes only in a CloseWrite of its own: nothing in it is       *)
(* unpaid at that moment.                                                   *)
LEMMA ClosingStep ==
  ASSUME IInv, [Next]_vars, NEW s \in Request, Active(s), session'[s].status = "closed"
  PROVE  Unpaid(s) = {}
  <1> session[s] # None /\ session[s].status = "active"  BY DEF Active
  <1>1. session' # session  OBVIOUS
  <1>2. CASE \E r \in Request : OpenSession(r)
    <2>1. PICK r \in Request : OpenSession(r)  BY <1>2
    <2>2. session[r] = None  BY <2>1 DEF OpenSession, IInv, Fits, Opening
    <2>3. s # r  BY <2>2
    <2>4. session'[s] = session[s]  BY <2>1, <2>3 DEF OpenSession, IInv, TypeOK
    <2>5. QED  BY <2>4
  <1>3. CASE \E r \in Request : MarkCalling(r)
    <2>1. PICK r \in Request : MarkCalling(r)  BY <1>3
    <2>2. job[r].session \in Request /\ session[job[r].session] # None
          BY <2>1 DEF MarkCalling, IInv, Fits, JobFits
    <2>3. SameSessions  BY <2>1, <2>2, CallingSame DEF MarkCalling, IInv
    <2>4. QED  BY <2>3 DEF SameSessions
  <1>4. CASE \E x \in Request : Acknowledge(x)
    <2>1. SameSessions  BY <1>4, CallingSame DEF Acknowledge, IInv
    <2>2. QED  BY <2>1 DEF SameSessions
  <1>5. CASE \E r \in Request : CloseWrite(r)
    <2>1. PICK r \in Request : CloseWrite(r)  BY <1>5
    <2>2. job[r].session \in Request /\ Unpaid(job[r].session) = {}
          BY <2>1 DEF CloseWrite, IInv, Fits, JobFits, Closing
    <2>3. CASE s = job[r].session  BY <2>2, <2>3
    <2>4. CASE s # job[r].session
      <3>1. session'[s] = session[s]  BY <2>1, <2>4 DEF CloseWrite, IInv, TypeOK
      <3>2. QED  BY <3>1
    <2>5. QED  BY <2>3, <2>4
  <1>6. CASE Edit  BY <1>1, <1>4, <1>6 DEF Edit, MarkPaid, SetRole, DeleteStaff
  <1>7. ASSUME NEW r \in Request, Begin(r) PROVE FALSE
        BY <1>1, <1>7 DEF Begin, Resolve, StaffOrder, HandoffLock, RetireCheck, CallWaiter, CloseLock
  <1>8. ASSUME NEW r \in Request, Continue(r) PROVE Unpaid(s) = {}
        BY <1>1, <1>2, <1>3, <1>5, <1>8
           DEF Continue, JoinSession, NoSession, RejectItems, InsertOrder, NothingToAssign,
               PickWaiter, AssignPicked, AssignDirectly, CloseCount, HandoffWrite, Remove,
               Regenerate, Rollback
  <1>9. QED  BY <1>1, <1>6, <1>7, <1>8 DEF Next, Quiescent, vars

(* No order slips into a session between the count and the close.           *)
THEOREM ClosedPaid == Spec => CloseOnlyPaid
  <1>1. IInv /\ [Next]_vars =>
          [\A s \in Request :
              Active(s) /\ session'[s].status = "closed" => Unpaid(s) = {}]_vars
        BY ClosingStep
  <1>2. QED  BY <1>1, Invariant, PTL DEF Spec, CloseOnlyPaid

(* Who takes a table over.                                                  *)
TakesOver(r, t) ==
    /\ pc[r] \in {"handoffWrite", "direct"}
    /\ pc'[r] = "done"
    /\ job[r].table = t

LEMMA TakeoverStep ==
  ASSUME IInv, [Next]_vars, NEW t \in Table, assigned[t] # None, assigned'[t] \notin {assigned[t], None}
  PROVE  \E r \in Request : TakesOver(r, t)
  <1>1. assigned' # assigned  OBVIOUS
  <1>2. ASSUME NEW r \in Request, AssignPicked(r) PROVE FALSE
    <2>1. assigned[job[r].table] = None  BY <1>2 DEF AssignPicked, IInv, Fits, Assigning
    <2>2. assigned'[t] = assigned[t]  BY <1>2, <2>1 DEF AssignPicked, IInv, TypeOK
    <2>3. QED  BY <2>2
  <1>3. ASSUME NEW r \in Request, AssignDirectly(r) \/ HandoffWrite(r) PROVE TakesOver(r, t)
    <2>1. pc'[r] = "done"  BY <1>3, FinishType DEF AssignDirectly, HandoffWrite, IInv
    <2>2. job[r].table = t
          BY <1>1, <1>3 DEF AssignDirectly, HandoffWrite, IInv, TypeOK
    <2>3. QED  BY <1>3, <2>1, <2>2 DEF AssignDirectly, HandoffWrite, TakesOver
  <1>4. ASSUME NEW r \in Request, CloseWrite(r) PROVE FALSE
        BY <1>4 DEF CloseWrite, IInv, TypeOK
  <1>5. ASSUME NEW w \in Staff, DeleteStaff(w) PROVE FALSE
        BY <1>5 DEF DeleteStaff, ReleaseTables, TablesOf
  <1>6. Edit => FALSE  BY <1>1, <1>5 DEF Edit, MarkPaid, SetRole, Acknowledge
  <1>7. ASSUME NEW r \in Request, Begin(r) PROVE FALSE
        BY <1>1, <1>7 DEF Begin, Resolve, StaffOrder, HandoffLock, RetireCheck, CallWaiter, CloseLock
  <1>8. ASSUME NEW r \in Request, Continue(r) PROVE TakesOver(r, t)
        BY <1>1, <1>2, <1>3, <1>4, <1>8
           DEF Continue, JoinSession, NoSession, OpenSession, RejectItems, InsertOrder, NothingToAssign,
               PickWaiter, MarkCalling, CloseCount, Remove, Regenerate, Rollback
  <1>9. QED  BY <1>1, <1>6, <1>7, <1>8 DEF Next, Quiescent, vars

(* Whoever claims a table first keeps it against a round robin.             *)
THEOREM FirstClaimStands == Spec => FirstCallerWins
  <1>1. IInv /\ [Next]_vars =>
          [\A t \in Table :
              (assigned[t] # None /\ assigned'[t] \notin {assigned[t], None}) =>
                  \E r \in Request :
                     /\ pc[r] \in {"handoffWrite", "direct"}
                     /\ pc'[r] = "done"
                     /\ job[r].table = t]_vars
        BY TakeoverStep DEF TakesOver
  <1>2. QED  BY <1>1, Invariant, PTL DEF Spec, FirstCallerWins
=============================================================================
