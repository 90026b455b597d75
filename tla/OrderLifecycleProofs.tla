------------------------- MODULE OrderLifecycleProofs -------------------------
(* What holds of OrderLifecycle for any number of items and requests.       *)
EXTENDS OrderLifecycle, TLAPS

-----------------------------------------------------------------------------
(* Type correctness *)

LEMMA NoJobType == NoJob \in Job
  <1>1. NoRows \in [{} -> ItemStatus]  BY DEF NoRows
  <1>2. NoRows \in Rows  BY <1>1 DEF Rows
  <1>3. QED  BY <1>2 DEF NoJob, Job, Actor, ItemStatus, LineStatus

LEMMA FinishType ==
  ASSUME TypeOK, NEW r \in Request, Finish(r)
  PROVE  pc' \in [Request -> Control] /\ job' \in [Request -> Job]
  BY NoJobType DEF Finish, Goto, TypeOK, Control

LEMMA UnlockType ==
  ASSUME TypeOK, NEW r \in Request, Unlock(r)
  PROVE  lock' \in [Item -> Request \union {NoRequest}]
  BY DEF Unlock, TypeOK

LEMMA RollBackType ==
  ASSUME TypeOK, NEW r \in Request, RollBack(r)
  PROVE  lock' \in [Item -> Request \union {NoRequest}]
  BY UnlockType DEF RollBack

(* What a job that has been read under lock may write.                      *)
LEMMA RowsType ==
  ASSUME TypeOK, NEW r \in Request
  PROVE  /\ DOMAIN job[r].rows \in SUBSET Item
         /\ \A i \in DOMAIN job[r].rows : job[r].rows[i] \in ItemStatus
         /\ job[r].to \in ItemStatus
         /\ job[r].by \in Actor
  <1>1. job[r] \in Job  BY DEF TypeOK
  <1>2. PICK S \in SUBSET Item : job[r].rows \in [S -> ItemStatus]
        BY <1>1 DEF Job, Rows
  <1>3. QED  BY <1>1, <1>2 DEF Job

LEMMA TypeInit == Init => TypeOK
  <1> SUFFICES ASSUME Init PROVE TypeOK  OBVIOUS
  <1>1. status \in [Item -> ItemStatus]  BY DEF Init, ItemStatus, LineStatus
  <1>2. audit \in [Item -> Seq(AuditRow)]  BY DEF Init
  <1>3. reports \in Seq(Report)  BY DEF Init
  <1>4. pc \in [Request -> Control]  BY DEF Init, Control
  <1>5. job \in [Request -> Job]  BY NoJobType DEF Init
  <1>6. lock \in [Item -> Request \union {NoRequest}]  BY DEF Init
  <1>7. QED  BY <1>1, <1>2, <1>3, <1>4, <1>5, <1>6 DEF Init, TypeOK

(* A request in progress is what its route let through, and a transaction    *)
(* that is about to write will append an audit row that may be there.       *)
JobFits ==
    \A r \in Request :
        /\ pc[r] = "tapRead" => /\ job[r].by \in {"staff", "admin"}
                                /\ job[r].to \in Tappable(job[r].by)
        /\ pc[r] = "cancelRead" => ~job[r].first
        /\ pc[r] = "write" =>
              /\ job[r].by = "customer" => job[r].to = "cancelled"
              /\ job[r].first => job[r].to = "ready"
              /\ \A i \in DOMAIN job[r].rows : AuditRowOf(job[r], i) \in AuditRow

(* The steps of a tap or a cancellation around its transaction's write.      *)
AroundWrite(r) ==
    \/ \E by \in {"staff", "admin"}, i \in Item : \E to \in Tappable(by) : TapBegin(r, by, i, to)
    \/ \E by \in {"staff", "customer"}, scope \in CancelScopes : CancelBegin(r, by, scope)
    \/ TapRefused(r) \/ (\E i \in Item : CancelLockRow(r, i)) \/ DeadlockAbort(r)
    \/ CancelRefused(r) \/ NotifyReady(r) \/ Announce(r)

(* A payment, and the check of completion that a served item shares with it. *)
Settles(r) ==
    \/ Pay(r) \/ ReportPaid(r) \/ IssueReceipt(r) \/ NoReceipt(r) \/ SendReceipt(r)
    \/ CheckComplete(r) \/ CloseRoom(r)

LEMMA Steps ==
  ASSUME [Next]_vars
  PROVE  \/ UNCHANGED vars
         \/ \E r \in Request : \/ AroundWrite(r) \/ Tap(r) \/ CancelDecide(r) \/ Commit(r)
                              \/ Settles(r) \/ Fail(r)
  BY DEF Next, Begin, Advance, Quiescent, AroundWrite, Settles

(* A row is locked for one more request.                                    *)
LEMMA LockTakes ==
  ASSUME TypeOK, NEW r \in Request, NEW i \in Item, Lock(r, i)
  PROVE  /\ lock' \in [Item -> Request \union {NoRequest}]
         /\ \A j \in Item : lock'[j] = IF j = i THEN r ELSE lock[j]
  BY DEF Lock, TypeOK

(* What a tap's transaction has read when it is about to write.             *)
LEMMA TapReads ==
  ASSUME TypeOK, JobFits, NEW r \in Request, Tap(r)
  PROVE  \E i \in Item :
            /\ Free(i) /\ Lock(r, i) /\ TapAllowed(job[r].by, status[i], job[r].to)
            /\ job' = [job EXCEPT ![r].rows = [j \in {i} |-> status[j]],
                                  ![r].first = FirstReady(i, job[r].to)]
            /\ job'[r].rows = [j \in {i} |-> status[j]]
            /\ job'[r].by = job[r].by /\ job'[r].to = job[r].to
            /\ job'[r].first = FirstReady(i, job[r].to)
            /\ job' \in [Request -> Job]
            /\ AuditRowOf(job'[r], i) \in AuditRow
  <1>1. job[r] \in Job  BY DEF TypeOK
  <1>2. PICK i \in job[r].scope :
             /\ Free(i) /\ Lock(r, i) /\ TapAllowed(job[r].by, status[i], job[r].to)
             /\ job' = [job EXCEPT ![r].rows = [j \in {i} |-> status[j]],
                                   ![r].first = FirstReady(i, job[r].to)]
        BY DEF Tap
  <1> DEFINE rows == [j \in {i} |-> status[j]]
             j1   == [job[r] EXCEPT !.rows = rows, !.first = FirstReady(i, job[r].to)]
  <1>3. i \in Item  BY <1>1, <1>2 DEF Job
  <1>4. rows \in [{i} -> ItemStatus]  BY <1>3 DEF TypeOK
  <1>5. rows \in Rows  BY <1>3, <1>4 DEF Rows
  <1>6. FirstReady(i, job[r].to) \in BOOLEAN  BY DEF FirstReady
  <1>7. j1 \in Job  BY <1>1, <1>5, <1>6 DEF Job
  <1>8. job' = [job EXCEPT ![r] = j1]  BY <1>1, <1>2 DEF TypeOK, Job
  <1>9. job'[r] = j1 /\ job' \in [Request -> Job]  BY <1>7, <1>8 DEF TypeOK
  <1>10. AuditRowOf(j1, i) \in AuditRow
    <2>1. status[i] \in ItemStatus /\ job[r].to \in ItemStatus /\ job[r].by \in {"staff", "admin"}
          BY <1>1, <1>3 DEF TypeOK, Job, JobFits, Tap
    <2>2. status[i] # job[r].to  BY <1>2 DEF TapAllowed
    <2>3. job[r].to = "received" => job[r].by = "admin"  BY DEF JobFits, Tap, Tappable
    <2>4. AuditRowOf(j1, i) = [from |-> status[i], to |-> job[r].to, by |-> job[r].by]
          BY <1>1 DEF AuditRowOf, Job
    <2>5. QED  BY <2>1, <2>2, <2>3, <2>4 DEF AuditRow, Actor
  <1>11. /\ j1.rows = rows /\ j1.by = job[r].by /\ j1.to = job[r].to
         /\ j1.first = FirstReady(i, job[r].to)
         BY <1>1 DEF Job
  <1> HIDE DEF j1
  <1>12. QED  BY <1>2, <1>3, <1>9, <1>10, <1>11

(* What a cancellation's transaction has read when it is about to write.    *)
LEMMA CancelReads ==
  ASSUME TypeOK, JobFits, NEW r \in Request, CancelDecide(r)
  PROVE  LET T == CancelTargets(job[r].scope) IN
         /\ T \in SUBSET Item
         /\ job'[r].rows = [i \in T |-> status[i]]
         /\ job'[r].by = job[r].by /\ job'[r].to = "cancelled" /\ job'[r].first = job[r].first
         /\ job' \in [Request -> Job]
         /\ \A i \in T : AuditRowOf(job'[r], i) \in AuditRow
  <1> DEFINE T    == CancelTargets(job[r].scope)
             rows == [i \in T |-> status[i]]
             j1   == [job[r] EXCEPT !.rows = rows, !.to = "cancelled"]
  <1>1. T \in SUBSET Item  BY DEF CancelTargets, Live
  <1>2. rows \in [T -> ItemStatus]  BY <1>1 DEF TypeOK
  <1>3. rows \in Rows  BY <1>1, <1>2 DEF Rows
  <1>4. job[r] \in Job  BY DEF TypeOK
  <1>5. j1 \in Job  BY <1>3, <1>4 DEF Job, ItemStatus
  <1>6. job' = [job EXCEPT ![r] = j1]  BY <1>4 DEF CancelDecide, TypeOK, Job
  <1>7. job'[r] = j1 /\ job' \in [Request -> Job]  BY <1>5, <1>6 DEF TypeOK
  <1>8. ASSUME NEW i \in T PROVE AuditRowOf(j1, i) \in AuditRow
    <2>1. status[i] \in LineStatus \ {"served"} /\ i \in Live
          BY DEF CancelTargets, Cancellable
    <2>2. job[r].by = "customer" => status[i] = "received"
          BY <2>1 DEF CancelDecide, CancelAllowed
    <2>3. AuditRowOf(j1, i) = [from |-> status[i], to |-> "cancelled", by |-> job[r].by]
          BY <1>4 DEF AuditRowOf, Job
    <2>4. QED  BY <1>4, <2>1, <2>2, <2>3 DEF AuditRow, ItemStatus, LineStatus, Job
  <1>9. j1.rows = rows /\ j1.by = job[r].by /\ j1.to = "cancelled" /\ j1.first = job[r].first
        BY <1>4 DEF Job
  <1> HIDE DEF j1
  <1>10. QED  BY <1>1, <1>7, <1>8, <1>9

LEMMA TypeCommit ==
  ASSUME TypeOK, JobFits, NEW r \in Request, Commit(r)
  PROVE  TypeOK'
  <1>1. status' \in [Item -> ItemStatus]
        BY RowsType DEF Commit, NewStatus, TypeOK
  <1>2. audit' \in [Item -> Seq(AuditRow)]
    <2> SUFFICES ASSUME NEW i \in Item
                 PROVE  NewAudit(job[r])[i] \in Seq(AuditRow)
        BY DEF Commit, NewAudit
    <2>1. audit[i] \in Seq(AuditRow)  BY DEF TypeOK
    <2>2. CASE i \in DOMAIN job[r].rows
      <3>1. AuditRowOf(job[r], i) \in AuditRow  BY <2>2 DEF JobFits, Commit
      <3>2. Append(audit[i], AuditRowOf(job[r], i)) \in Seq(AuditRow)  BY <2>1, <3>1
      <3>3. QED  BY <2>2, <3>2 DEF NewAudit
    <2>3. CASE i \notin DOMAIN job[r].rows  BY <2>1, <2>3 DEF NewAudit
    <2>4. QED  BY <2>2, <2>3
  <1>3. pc' \in [Request -> Control]
        BY DEF Commit, Goto, AfterCommit, TypeOK, Control
  <1>4. job' \in [Request -> Job]  BY NoJobType DEF Commit, TypeOK
  <1>5. lock' \in [Item -> Request \union {NoRequest}]  BY UnlockType DEF Commit
  <1>6. lateCancel' \in BOOLEAN  BY DEF Commit, TypeOK
  <1>7. QED  BY <1>1, <1>2, <1>3, <1>4, <1>5, <1>6 DEF Commit, TypeOK, sentVars

LEMMA TypeReport ==
  ASSUME TypeOK, NEW kind \in {"order_paid", "order_items_cancelled"},
         NEW items \in SUBSET Item, reports' \in Enqueued(kind, items)
  PROVE  reports' \in Seq(Report)
  <1> DEFINE event == [kind |-> kind, items |-> items]
  <1>1. event \in Report  BY DEF Report
  <1>2. reports \in Seq(Report)  BY DEF TypeOK
  <1>3. reports' = reports \/ reports' = Append(reports, event)  BY DEF Enqueued
  <1>4. Append(reports, event) \in Seq(Report)
    <2> HIDE DEF event
    <2>1. QED  BY <1>1, <1>2
  <1>5. QED  BY <1>2, <1>3, <1>4

LEMMA TypeAround ==
  ASSUME TypeOK, NEW r \in Request, AroundWrite(r)
  PROVE  TypeOK'
  <1>1. ASSUME NEW by \in {"staff", "admin"}, NEW i \in Item, NEW to \in Tappable(by),
               TapBegin(r, by, i, to)
        PROVE  TypeOK'
    <2> DEFINE j1 == [NoJob EXCEPT !.by = by, !.scope = {i}, !.to = to]
    <2>1. to \in ItemStatus  BY DEF Tappable, ItemStatus, LineStatus
    <2>2. j1 \in Job  BY <2>1, NoJobType DEF Job, Actor
    <2>3. job' \in [Request -> Job]  BY <1>1, <2>2 DEF TapBegin, TypeOK
    <2>4. pc' \in [Request -> Control]  BY <1>1 DEF TapBegin, Goto, TypeOK, Control
    <2>5. QED  BY <1>1, <2>3, <2>4 DEF TapBegin, TypeOK, dbVars, sentVars, pastVars
  <1>2. ASSUME NEW by \in {"staff", "customer"}, NEW scope \in CancelScopes,
               CancelBegin(r, by, scope)
        PROVE  TypeOK'
    <2> DEFINE j1 == [NoJob EXCEPT !.by = by, !.scope = scope]
    <2>1. scope \in SUBSET Item  BY DEF CancelScopes
    <2>2. j1 \in Job  BY <2>1, NoJobType DEF Job, Actor
    <2>3. job' \in [Request -> Job] /\ pc' \in [Request -> Control]
      <3>1. CASE payment = "paid"  BY <1>2, <3>1, FinishType DEF CancelBegin
      <3>2. CASE payment # "paid"
        <4>1. job' = [job EXCEPT ![r] = j1]  BY <1>2, <3>2 DEF CancelBegin
        <4>2. QED  BY <1>2, <3>2, <4>1, <2>2 DEF CancelBegin, Goto, TypeOK, Control
      <3>3. QED  BY <3>1, <3>2
    <2>4. QED  BY <1>2, <2>3 DEF CancelBegin, TypeOK, dbVars, sentVars, pastVars
  <1>3. CASE TapRefused(r)
        BY <1>3, FinishType DEF TapRefused, TypeOK, dbVars, sentVars, pastVars
  <1>4. ASSUME NEW i \in Item, CancelLockRow(r, i) PROVE TypeOK'
        BY <1>4, LockTakes DEF CancelLockRow, TypeOK, dbVars, sentVars, pastVars
  <1>5. CASE DeadlockAbort(r) \/ CancelRefused(r)
        BY <1>5, FinishType, RollBackType
        DEF DeadlockAbort, CancelRefused, TypeOK, dbVars, sentVars, pastVars
  <1>6. CASE NotifyReady(r)
        BY <1>6, FinishType DEF NotifyReady, TypeOK, dbVars, pastVars
  <1>7. CASE Announce(r)
    <2>1. reports' \in Seq(Report)
          BY <1>7, RowsType, TypeReport DEF Announce, ReportedItems
    <2>2. QED  BY <1>7, <2>1, FinishType DEF Announce, TypeOK, dbVars, pastVars
  <1>8. QED  BY <1>1, <1>2, <1>3, <1>4, <1>5, <1>6, <1>7 DEF AroundWrite

LEMMA TypeSettles ==
  ASSUME TypeOK, NEW r \in Request, Settles(r)
  PROVE  TypeOK'
  <1>1. CASE Pay(r)  BY <1>1 DEF Pay, Goto, TypeOK, Control, sentVars, pastVars
  <1>2. CASE ReportPaid(r)
    <2>1. reports' \in Seq(Report)  BY <1>2, TypeReport DEF ReportPaid
    <2>2. QED  BY <1>2, <2>1 DEF ReportPaid, Goto, TypeOK, Control, dbVars, pastVars
  <1>3. CASE IssueReceipt(r)
        BY <1>3 DEF IssueReceipt, Goto, TypeOK, Control, sentVars, pastVars
  <1>4. CASE NoReceipt(r)
        BY <1>4 DEF NoReceipt, Goto, TypeOK, Control, dbVars, sentVars, pastVars
  <1>5. CASE SendReceipt(r)  BY <1>5 DEF SendReceipt, Goto, TypeOK, Control, dbVars, pastVars
  <1>6. CASE CheckComplete(r)
        BY <1>6 DEF CheckComplete, Goto, TypeOK, Control, dbVars, sentVars, pastVars
  <1>7. CASE CloseRoom(r)  BY <1>7 DEF CloseRoom, Goto, TypeOK, Control, dbVars, pastVars
  <1>8. QED  BY <1>1, <1>2, <1>3, <1>4, <1>5, <1>6, <1>7 DEF Settles

LEMMA TypeFail ==
  ASSUME TypeOK, NEW r \in Request, Fail(r)
  PROVE  TypeOK'
  <1>1. unchecked' \in BOOLEAN  BY DEF Fail, TypeOK
  <1>2. QED  BY <1>1, FinishType, RollBackType DEF Fail, TypeOK, dbVars, sentVars

LEMMA TypeNext == TypeOK /\ JobFits /\ [Next]_vars => TypeOK'
  <1> SUFFICES ASSUME TypeOK, JobFits, [Next]_vars PROVE TypeOK'  OBVIOUS
  <1>1. ASSUME NEW r \in Request, Tap(r) PROVE TypeOK'
    <2>1. job' \in [Request -> Job] /\ lock' \in [Item -> Request \union {NoRequest}]
          BY <1>1, TapReads, LockTakes
    <2>2. pc' \in [Request -> Control]  BY <1>1 DEF Tap, Goto, TypeOK, Control
    <2>3. QED  BY <1>1, <2>1, <2>2 DEF Tap, TypeOK, dbVars, sentVars, pastVars
  <1>2. ASSUME NEW r \in Request, CancelDecide(r) PROVE TypeOK'
    <2>1. job' \in [Request -> Job]  BY <1>2, CancelReads
    <2>2. pc' \in [Request -> Control]  BY <1>2 DEF CancelDecide, Goto, TypeOK, Control
    <2>3. QED  BY <1>2, <2>1, <2>2 DEF CancelDecide, TypeOK, dbVars, sentVars, pastVars
  <1>3. CASE UNCHANGED vars  BY <1>3 DEF vars, TypeOK
  <1>4. QED  BY <1>1, <1>2, <1>3, Steps, TypeAround, TypeCommit, TypeSettles, TypeFail

(* What a step does to the other requests and, but for the commit and the     *)
(* preparation of a write, to the items: it may at most take a free row or  *)
(* give back rows of its own.                                               *)
Alone(r) == \A q \in Request \ {r} : pc'[q] = pc[q] /\ job'[q] = job[q]

Calm(r) ==
    /\ status' = status /\ audit' = audit
    /\ pc'[r] # "write"
    /\ Alone(r)
    /\ \A i \in Item : lock[i] \notin {r, NoRequest} => lock'[i] = lock[i]

LEMMA FinishCalm ==
  ASSUME TypeOK, NEW r \in Request, Finish(r)
  PROVE  pc'[r] = "done" /\ Alone(r)
  BY DEF Finish, Goto, TypeOK, Alone

LEMMA UnlockFrees ==
  ASSUME TypeOK, NEW r \in Request, Unlock(r) \/ RollBack(r)
  PROVE  \A i \in Item : lock[i] # r => lock'[i] = lock[i]
  BY DEF Unlock, RollBack, TypeOK

LEMMA AroundCalm ==
  ASSUME TypeOK, NEW r \in Request, AroundWrite(r)
  PROVE  /\ Calm(r)
         /\ pc[r] \notin OnItsWay /\ pc'[r] \notin OnItsWay
         /\ UNCHANGED <<payment, receiptRow, receiptsSent, completions, pastVars>>
  <1> USE DEF OnItsWay
  <1>1. ASSUME NEW by, NEW i, NEW to, TapBegin(r, by, i, to)
        PROVE  /\ Calm(r) /\ pc[r] = "idle" /\ pc'[r] = "tapRead"
               /\ UNCHANGED <<payment, receiptRow, receiptsSent, completions, pastVars>>
        BY <1>1 DEF TapBegin, Calm, Alone, Goto, TypeOK, dbVars, sentVars, pastVars
  <1>2. ASSUME NEW by, NEW scope, CancelBegin(r, by, scope)
        PROVE  /\ Calm(r) /\ pc[r] = "idle" /\ pc'[r] \in {"cancelRead", "done"}
               /\ UNCHANGED <<payment, receiptRow, receiptsSent, completions, pastVars>>
    <2>1. CASE payment = "paid"
          BY <1>2, <2>1, FinishCalm DEF CancelBegin, Calm, dbVars, sentVars, pastVars
    <2>2. CASE payment # "paid"
          BY <1>2, <2>2 DEF CancelBegin, Calm, Alone, Goto, TypeOK, dbVars, sentVars, pastVars
    <2>3. QED  BY <2>1, <2>2
  <1>3. CASE TapRefused(r)
        BY <1>3, FinishCalm DEF TapRefused, Calm, dbVars, sentVars, pastVars
  <1>4. ASSUME NEW i \in Item, CancelLockRow(r, i)
        PROVE  /\ Calm(r) /\ pc[r] = "cancelRead" /\ pc'[r] = "cancelRead"
               /\ UNCHANGED <<payment, receiptRow, receiptsSent, completions, pastVars>>
        BY <1>4, LockTakes DEF CancelLockRow, Free, Calm, Alone, dbVars, sentVars, pastVars
  <1>5. CASE DeadlockAbort(r) \/ CancelRefused(r)
        BY <1>5, FinishCalm, UnlockFrees
        DEF DeadlockAbort, CancelRefused, AllLocked, Calm, dbVars, sentVars, pastVars
  <1>6. CASE NotifyReady(r) \/ Announce(r)
        BY <1>6, FinishCalm DEF NotifyReady, Announce, Calm, dbVars, pastVars
  <1>7. QED  BY <1>1, <1>2, <1>3, <1>4, <1>5, <1>6 DEF AroundWrite

LEMMA SettlesCalm ==
  ASSUME TypeOK, NEW r \in Request, Settles(r)
  PROVE  /\ Calm(r) /\ job' = job /\ UNCHANGED <<lock, lateCancel, unchecked>>
         /\ pc'[r] \notin {"tapRead", "cancelRead", "write", "announce"}
  <1>1. CASE Pay(r) \/ ReportPaid(r) \/ NoReceipt(r) \/ SendReceipt(r)
        BY <1>1 DEF Pay, ReportPaid, NoReceipt, SendReceipt, Calm, Alone, Goto, TypeOK, dbVars, pastVars
  <1>2. CASE IssueReceipt(r) \/ CheckComplete(r) \/ CloseRoom(r)
        BY <1>2 DEF IssueReceipt, CheckComplete, CloseRoom, Calm, Alone, Goto, TypeOK, dbVars, pastVars
  <1>3. QED  BY <1>1, <1>2 DEF Settles

LEMMA FailCalm ==
  ASSUME TypeOK, NEW r \in Request, Fail(r)
  PROVE  Calm(r) /\ pc'[r] = "done"
  BY FinishCalm, UnlockFrees DEF Fail, Calm, dbVars

LEMMA CommitAlone ==
  ASSUME TypeOK, NEW r \in Request, Commit(r)
  PROVE  /\ Alone(r)
         /\ pc[r] = "write" /\ pc'[r] = AfterCommit(job[r])
         /\ pc'[r] \in {"announce", "notify", "finalize", "done"}
         /\ UNCHANGED <<payment, receiptRow, receiptsSent, completions, reports, unchecked>>
  BY DEF Commit, Goto, AfterCommit, TypeOK, Alone, sentVars

LEMMA JobFitsStep ==
  ASSUME TypeOK, JobFits, [Next]_vars
  PROVE  JobFits'
  <1> DEFINE Fits(q) ==
        /\ pc[q] = "tapRead" => /\ job[q].by \in {"staff", "admin"}
                                /\ job[q].to \in Tappable(job[q].by)
        /\ pc[q] = "cancelRead" => ~job[q].first
        /\ pc[q] = "write" =>
              /\ job[q].by = "customer" => job[q].to = "cancelled"
              /\ job[q].first => job[q].to = "ready"
              /\ \A i \in DOMAIN job[q].rows : AuditRowOf(job[q], i) \in AuditRow
  <1>1. ASSUME NEW r \in Request, Alone(r), Fits(r)' PROVE JobFits'
    <2> SUFFICES ASSUME NEW q \in Request PROVE Fits(q)'
        BY DEF JobFits
    <2>1. CASE q = r  BY <1>1, <2>1
    <2>2. CASE q # r
      <3>1. pc'[q] = pc[q] /\ job'[q] = job[q]  BY <1>1, <2>2 DEF Alone
      <3>2. Fits(q)  BY DEF JobFits
      <3>3. QED  BY <3>1, <3>2 DEF AuditRowOf, Tappable
    <2>3. QED  BY <2>1, <2>2
  <1>2. ASSUME NEW r \in Request, Alone(r), pc'[r] \notin {"tapRead", "cancelRead", "write"}
        PROVE  JobFits'
        BY <1>1, <1>2
  <1>3. ASSUME NEW r \in Request, AroundWrite(r) PROVE JobFits'
    <2>0. Alone(r) /\ pc'[r] # "write"  BY <1>3, AroundCalm DEF Calm
    <2>1. ASSUME NEW by \in {"staff", "admin"}, NEW i \in Item, NEW to \in Tappable(by),
                 TapBegin(r, by, i, to)
          PROVE  Fits(r)'
      <3>1. pc'[r] = "tapRead" /\ job'[r] = [NoJob EXCEPT !.by = by, !.scope = {i}, !.to = to]
            BY <2>1 DEF TapBegin, Goto, TypeOK
      <3>2. job'[r].by = by /\ job'[r].to = to  BY <3>1 DEF NoJob
      <3>3. QED  BY <3>1, <3>2 DEF Tappable
    <2>2. ASSUME NEW by \in {"staff", "customer"}, NEW scope \in CancelScopes,
                 CancelBegin(r, by, scope), pc'[r] = "cancelRead"
          PROVE  Fits(r)'
      <3>1. payment # "paid"  BY <2>2 DEF CancelBegin, Finish, Goto, TypeOK
      <3>2. job'[r] = [NoJob EXCEPT !.by = by, !.scope = scope]
            BY <2>2, <3>1 DEF CancelBegin, TypeOK
      <3>3. job'[r].first = FALSE  BY <3>2 DEF NoJob
      <3>4. QED  BY <2>2, <3>3
    <2>3. ASSUME NEW i \in Item, CancelLockRow(r, i) PROVE Fits(r)'
      <3>1. pc'[r] = "cancelRead" /\ job'[r] = job[r] /\ pc[r] = "cancelRead"
            BY <2>3 DEF CancelLockRow
      <3>2. QED  BY <3>1 DEF JobFits
    <2>4. CASE \/ TapRefused(r) \/ DeadlockAbort(r) \/ CancelRefused(r)
               \/ NotifyReady(r) \/ Announce(r)
      <3>1. pc'[r] = "done"
            BY <2>4, FinishCalm DEF TapRefused, DeadlockAbort, CancelRefused, NotifyReady, Announce
      <3>2. QED  BY <2>0, <3>1, <1>2
    <2>5. ASSUME NEW by \in {"staff", "customer"}, NEW scope \in CancelScopes,
                 CancelBegin(r, by, scope), pc'[r] # "cancelRead"
          PROVE  JobFits'
      <3>1. pc'[r] = "done"  BY <2>5 DEF CancelBegin, Finish, Goto, TypeOK
      <3>2. QED  BY <2>0, <3>1, <1>2
    <2>6. QED  BY <1>1, <1>3, <2>0, <2>1, <2>2, <2>3, <2>4, <2>5 DEF AroundWrite
  <1>4. ASSUME NEW r \in Request, Tap(r) PROVE JobFits'
    <2>1. Alone(r) /\ pc'[r] = "write"
          BY <1>4, TapReads DEF Tap, Goto, TypeOK, Alone
    <2>2. PICK i \in Item :
             /\ job'[r].rows = [j \in {i} |-> status[j]]
             /\ job'[r].by = job[r].by /\ job'[r].to = job[r].to
             /\ job'[r].first = FirstReady(i, job[r].to)
             /\ AuditRowOf(job'[r], i) \in AuditRow
          BY <1>4, TapReads
    <2>3. job[r].by # "customer"  BY <1>4 DEF Tap, JobFits
    <2>4. job'[r].first => job'[r].to = "ready"  BY <2>2 DEF FirstReady
    <2>5. \A j \in DOMAIN job'[r].rows : AuditRowOf(job'[r], j) \in AuditRow  BY <2>2
    <2>6. Fits(r)'  BY <2>1, <2>2, <2>3, <2>4, <2>5
    <2>7. QED  BY <1>1, <2>1, <2>6
  <1>5. ASSUME NEW r \in Request, CancelDecide(r) PROVE JobFits'
    <2>1. Alone(r) /\ pc'[r] = "write" /\ pc[r] = "cancelRead"
          BY <1>5 DEF CancelDecide, AllLocked, Goto, TypeOK, Alone
    <2>2. ~job'[r].first /\ job'[r].to = "cancelled"
          BY <1>5, <2>1, CancelReads DEF JobFits
    <2>3. \A j \in DOMAIN job'[r].rows : AuditRowOf(job'[r], j) \in AuditRow
          BY <1>5, CancelReads
    <2>4. Fits(r)'  BY <2>1, <2>2, <2>3
    <2>5. QED  BY <1>1, <2>1, <2>4
  <1>6. ASSUME NEW r \in Request, Commit(r) PROVE JobFits'
        BY <1>2, <1>6, CommitAlone
  <1>7. ASSUME NEW r \in Request, Settles(r) \/ Fail(r) PROVE JobFits'
        BY <1>2, <1>7, SettlesCalm, FailCalm DEF Calm
  <1>8. CASE UNCHANGED vars
    <2>1. pc' = pc /\ job' = job  BY <1>8 DEF vars
    <2>2. QED  BY <2>1 DEF JobFits, AuditRowOf, Tappable
  <1>9. QED  BY <1>3, <1>4, <1>5, <1>6, <1>7, <1>8, Steps

(* Type correctness: whatever requests run, fail or wait for one another,   *)
(* every column, lock and local of a request keeps its type; in particular  *)
(* every audit row is one its writer may write.                             *)
THEOREM TypeCorrect == Spec => []TypeOK
  <1>1. Init => JobFits  BY DEF Init, JobFits
  <1>2. QED  BY <1>1, TypeInit, TypeNext, JobFitsStep, PTL DEF Spec

-----------------------------------------------------------------------------
(* The inductive invariant of the two transactions *)

(* A transaction that is about to write was allowed to by what it read.     *)
WriteAllowed ==
    \A r \in Request : pc[r] = "write" =>
        \A i \in DOMAIN job[r].rows :
            IF job[r].to = "cancelled"
              THEN job[r].rows[i] \in Cancellable
              ELSE TapAllowed(job[r].by, job[r].rows[i], job[r].to)

IInv == TypeOK /\ JobFits /\ RowsHeld /\ AuditChain /\ WriteAllowed

LEMMA CalmKeeps ==
  ASSUME IInv, NEW r \in Request, Calm(r)
  PROVE  RowsHeld' /\ AuditChain' /\ WriteAllowed'
  <1>1. RowsHeld'
    <2> SUFFICES ASSUME NEW q \in Request, pc'[q] = "write"
                 PROVE  /\ \A i \in DOMAIN job'[q].rows :
                              lock'[i] = q /\ status'[i] = job'[q].rows[i]
                        /\ job'[q].to = "cancelled" => \A i \in Item : lock'[i] = q
        BY DEF RowsHeld
    <2>1. q # r /\ pc[q] = "write" /\ job'[q] = job[q]  BY DEF Calm, Alone
    <2>2. \A i \in DOMAIN job[q].rows : i \in Item  BY RowsType DEF IInv
    <2>3. q # NoRequest  BY OrderAssumption
    <2>4. QED  BY <2>1, <2>2, <2>3 DEF IInv, RowsHeld, Calm
  <1>2. AuditChain'  BY DEF IInv, AuditChain, Calm
  <1>3. WriteAllowed'
        BY DEF IInv, WriteAllowed, Calm, Alone, TapAllowed
  <1>4. QED  BY <1>1, <1>2, <1>3

LEMMA InitIInv == Init => IInv
  <1> SUFFICES ASSUME Init PROVE IInv  OBVIOUS
  <1>1. RowsHeld /\ WriteAllowed /\ JobFits  BY DEF Init, RowsHeld, WriteAllowed, JobFits
  <1>2. AuditChain  BY DEF Init, AuditChain
  <1>3. QED  BY <1>1, <1>2, TypeInit DEF IInv

(* Whoever is about to write keeps its rows while another prepares to.      *)
LEMMA PrepareKeeps ==
  ASSUME IInv, NEW r \in Request, Alone(r), pc'[r] = "write", status' = status, audit' = audit,
         \A i \in DOMAIN job'[r].rows : lock'[i] = r /\ status[i] = job'[r].rows[i],
         job'[r].to = "cancelled" => \A i \in Item : lock'[i] = r,
         \A i \in Item : lock[i] # NoRequest => lock'[i] = lock[i],
         \A i \in DOMAIN job'[r].rows :
            IF job'[r].to = "cancelled"
              THEN job'[r].rows[i] \in Cancellable
              ELSE TapAllowed(job'[r].by, job'[r].rows[i], job'[r].to)
  PROVE  RowsHeld' /\ AuditChain' /\ WriteAllowed'
  <1>1. RowsHeld'
    <2> SUFFICES ASSUME NEW q \in Request, pc'[q] = "write", q # r
                 PROVE  /\ \A j \in DOMAIN job'[q].rows :
                              lock'[j] = q /\ status'[j] = job'[q].rows[j]
                        /\ job'[q].to = "cancelled" => \A j \in Item : lock'[j] = q
        BY DEF RowsHeld
    <2>1. pc[q] = "write" /\ job'[q] = job[q]  BY DEF Alone
    <2>2. q # NoRequest  BY OrderAssumption
    <2>3. \A j \in DOMAIN job[q].rows : j \in Item  BY RowsType DEF IInv
    <2>4. QED  BY <2>1, <2>2, <2>3 DEF IInv, RowsHeld
  <1>2. AuditChain'  BY DEF IInv, AuditChain
  <1>3. WriteAllowed'
    <2> SUFFICES ASSUME NEW q \in Request, pc'[q] = "write", q # r,
                        NEW j \in DOMAIN job'[q].rows
                 PROVE  IF job'[q].to = "cancelled"
                          THEN job'[q].rows[j] \in Cancellable
                          ELSE TapAllowed(job'[q].by, job'[q].rows[j], job'[q].to)
        BY DEF WriteAllowed, TapAllowed
    <2>1. QED  BY DEF IInv, WriteAllowed, Alone
  <1>4. QED  BY <1>1, <1>2, <1>3

(* A row lock is granted only when the row is free.                         *)
LEMMA TapKeeps ==
  ASSUME IInv, NEW r \in Request, Tap(r)
  PROVE  RowsHeld' /\ AuditChain' /\ WriteAllowed'
  <1>1. TypeOK /\ JobFits  BY DEF IInv
  <1>2. PICK i \in Item :
            /\ Free(i) /\ Lock(r, i) /\ TapAllowed(job[r].by, status[i], job[r].to)
            /\ job' = [job EXCEPT ![r].rows = [j \in {i} |-> status[j]],
                                  ![r].first = FirstReady(i, job[r].to)]
            /\ job'[r].rows = [j \in {i} |-> status[j]]
            /\ job'[r].by = job[r].by /\ job'[r].to = job[r].to
        BY <1>1, TapReads
  <1>3. Alone(r) /\ pc'[r] = "write"
        BY <1>1, <1>2 DEF Tap, Goto, TypeOK, Alone
  <1>4. status' = status /\ audit' = audit  BY DEF Tap, dbVars
  <1>5. job'[r].to # "cancelled"
        BY <1>1, <1>2 DEF Tap, JobFits, Tappable, LineStatus
  <1>6. \A j \in Item : lock'[j] = IF j = i THEN r ELSE lock[j]
        BY <1>1, <1>2, LockTakes
  <1>7. lock[i] = NoRequest  BY <1>2 DEF Free
  <1>8. DOMAIN job'[r].rows = {i} /\ job'[r].rows[i] = status[i]  BY <1>2
  <1>9. QED  BY <1>2, <1>3, <1>4, <1>5, <1>6, <1>7, <1>8, PrepareKeeps

(* A cancellation decides when it holds every row of the order.             *)
LEMMA CancelDecideKeeps ==
  ASSUME IInv, NEW r \in Request, CancelDecide(r)
  PROVE  RowsHeld' /\ AuditChain' /\ WriteAllowed'
  <1> DEFINE T == CancelTargets(job[r].scope)
  <1>1. TypeOK /\ JobFits  BY DEF IInv
  <1>2. /\ T \in SUBSET Item /\ job'[r].rows = [i \in T |-> status[i]]
        /\ job'[r].to = "cancelled"
        BY <1>1, CancelReads
  <1>3. Alone(r) /\ pc'[r] = "write"
        BY <1>1 DEF CancelDecide, Goto, TypeOK, Alone
  <1>4. status' = status /\ audit' = audit /\ lock' = lock  BY DEF CancelDecide, dbVars
  <1>5. \A i \in Item : lock[i] = r
        BY DEF CancelDecide, AllLocked, CancelLocks, Held
  <1>6. \A i \in T : status[i] \in Cancellable  BY DEF CancelTargets
  <1> HIDE DEF T
  <1>7. DOMAIN job'[r].rows = T /\ \A i \in T : job'[r].rows[i] = status[i]  BY <1>2
  <1>8. QED  BY <1>2, <1>3, <1>4, <1>5, <1>6, <1>7, PrepareKeeps

(* What a commit does to one item.                                          *)
LEMMA CommitWrites ==
  ASSUME IInv, NEW r \in Request, Commit(r), NEW i \in Item
  PROVE  \/ /\ i \notin DOMAIN job[r].rows
            /\ status'[i] = status[i] /\ audit'[i] = audit[i]
         \/ /\ i \in DOMAIN job[r].rows
            /\ status'[i] = job[r].to
            /\ audit'[i] = Append(audit[i],
                  [from |-> status[i], to |-> job[r].to, by |-> job[r].by])
            /\ lock[i] = r
  <1>1. CASE i \notin DOMAIN job[r].rows
        BY <1>1 DEF Commit, NewStatus, NewAudit
  <1>2. CASE i \in DOMAIN job[r].rows
    <2>1. status[i] = job[r].rows[i] /\ lock[i] = r
          BY <1>2 DEF Commit, IInv, RowsHeld
    <2>2. QED  BY <1>2, <2>1 DEF Commit, NewStatus, NewAudit, AuditRowOf
  <1>3. QED  BY <1>1, <1>2

(* The audit row a commit appends.                                          *)
LEMMA CommitRow ==
  ASSUME IInv, NEW r \in Request, Commit(r), NEW i \in DOMAIN job[r].rows
  PROVE  [from |-> status[i], to |-> job[r].to, by |-> job[r].by] \in AuditRow
  <1>1. AuditRowOf(job[r], i) \in AuditRow  BY DEF IInv, JobFits, Commit
  <1>2. status[i] = job[r].rows[i]  BY DEF IInv, RowsHeld, Commit
  <1>3. QED  BY <1>1, <1>2 DEF AuditRowOf

LEMMA ChainGrows ==
  ASSUME NEW trail \in Seq(AuditRow), NEW row \in AuditRow, NEW s,
         trail = <<>> => row.from = "received",
         trail # <<>> => trail[1].from = "received" /\ trail[Len(trail)].to = row.from,
         \A k \in 1 .. Len(trail) - 1 : trail[k].to = trail[k + 1].from,
         s = row.to
  PROVE  LET new == Append(trail, row) IN
         /\ new # <<>>
         /\ new[1].from = "received" /\ new[Len(new)].to = s
         /\ \A k \in 1 .. Len(new) - 1 : new[k].to = new[k + 1].from
  <1> DEFINE new == Append(trail, row)
  <1>1. Len(trail) \in Nat /\ Len(new) = Len(trail) + 1  OBVIOUS
  <1>2. \A k \in 1 .. Len(trail) : new[k] = trail[k]  OBVIOUS
  <1>3. new[Len(trail) + 1] = row  OBVIOUS
  <1>4. trail = <<>> <=> Len(trail) = 0  OBVIOUS
  <1> HIDE DEF new
  <1>5. new # <<>>
    <2>1. Len(<<>>) = 0  OBVIOUS
    <2>2. Len(new) # 0  BY <1>1
    <2>3. QED  BY <2>1, <2>2
  <1>6. new[1].from = "received"
        BY <1>1, <1>2, <1>3, <1>4
  <1>7. \A k \in 1 .. Len(new) - 1 : new[k].to = new[k + 1].from
    <2> SUFFICES ASSUME NEW k \in 1 .. Len(trail)
                 PROVE  new[k].to = new[k + 1].from
        BY <1>1
    <2>1. CASE k = Len(trail)  BY <2>1, <1>1, <1>2, <1>3, <1>4
    <2>2. CASE k # Len(trail)
      <3>1. k \in 1 .. Len(trail) - 1 /\ k + 1 \in 1 .. Len(trail)  BY <2>2, <1>1
      <3>2. QED  BY <3>1, <1>2
    <2>3. QED  BY <2>1, <2>2
  <1>8. new[Len(new)].to = s  BY <1>1, <1>3
  <1>9. QED  BY <1>5, <1>6, <1>7, <1>8 DEF new

LEMMA CommitKeeps ==
  ASSUME IInv, NEW r \in Request, Commit(r)
  PROVE  RowsHeld' /\ AuditChain' /\ WriteAllowed'
  <1>1. TypeOK  BY DEF IInv
  <1>2. pc'[r] # "write"  BY <1>1, CommitAlone
  <1>3. \A q \in Request \ {r} : pc'[q] = pc[q] /\ job'[q] = job[q]
        BY <1>1, CommitAlone DEF Alone
  <1>4. \A i \in Item : lock[i] # r => lock'[i] = lock[i]
        BY <1>1, UnlockFrees DEF Commit
  <1>5. \A i \in Item : lock[i] # r => status'[i] = status[i]
        BY CommitWrites
  <1>6. RowsHeld'
    <2> SUFFICES ASSUME NEW q \in Request, pc'[q] = "write"
                 PROVE  /\ \A i \in DOMAIN job'[q].rows :
                              lock'[i] = q /\ status'[i] = job'[q].rows[i]
                        /\ job'[q].to = "cancelled" => \A i \in Item : lock'[i] = q
        BY DEF RowsHeld
    <2>1. q # r /\ pc[q] = "write" /\ job'[q] = job[q]  BY <1>2, <1>3
    <2>2. \A i \in DOMAIN job[q].rows : i \in Item  BY <1>1, RowsType
    <2>3. QED  BY <2>1, <2>2, <1>4, <1>5 DEF IInv, RowsHeld
  <1>7. AuditChain'
    <2> SUFFICES ASSUME NEW i \in Item
                 PROVE  /\ audit'[i] = <<>> => status'[i] = "received"
                        /\ audit'[i] # <<>> =>
                             /\ audit'[i][1].from = "received"
                             /\ audit'[i][Len(audit'[i])].to = status'[i]
                        /\ \A k \in 1 .. Len(audit'[i]) - 1 :
                              audit'[i][k].to = audit'[i][k + 1].from
        BY DEF AuditChain
    <2>1. /\ audit[i] = <<>> => status[i] = "received"
          /\ audit[i] # <<>> => audit[i][1].from = "received"
                               /\ audit[i][Len(audit[i])].to = status[i]
          /\ \A k \in 1 .. Len(audit[i]) - 1 : audit[i][k].to = audit[i][k + 1].from
          BY DEF IInv, AuditChain
    <2>2. CASE i \notin DOMAIN job[r].rows  BY <2>1, <2>2, CommitWrites
    <2>3. CASE i \in DOMAIN job[r].rows
      <3> DEFINE row == [from |-> status[i], to |-> job[r].to, by |-> job[r].by]
      <3>1. audit'[i] = Append(audit[i], row) /\ status'[i] = row.to
            BY <2>3, CommitWrites
      <3>2. row \in AuditRow /\ row.from = status[i]  BY <2>3, CommitRow
      <3>3. audit[i] \in Seq(AuditRow)  BY <1>1 DEF TypeOK
      <3> HIDE DEF row
      <3>4. QED  BY <2>1, <3>1, <3>2, <3>3, ChainGrows
    <2>4. QED  BY <2>2, <2>3
  <1>8. WriteAllowed'
        BY <1>2, <1>3 DEF IInv, WriteAllowed, TapAllowed
  <1>9. QED  BY <1>6, <1>7, <1>8

LEMMA NextIInv == IInv /\ [Next]_vars => IInv'
  <1> SUFFICES ASSUME IInv, [Next]_vars
               PROVE  RowsHeld' /\ AuditChain' /\ WriteAllowed'
      BY TypeNext, JobFitsStep DEF IInv
  <1>1. TypeOK  BY DEF IInv
  <1>2. ASSUME NEW r \in Request, AroundWrite(r) \/ Settles(r) \/ Fail(r)
        PROVE  RowsHeld' /\ AuditChain' /\ WriteAllowed'
    <2>1. Calm(r)  BY <1>1, <1>2, AroundCalm, SettlesCalm, FailCalm
    <2>2. QED  BY <2>1, CalmKeeps
  <1>3. CASE UNCHANGED vars
        BY <1>3 DEF vars, IInv, RowsHeld, AuditChain, WriteAllowed, TapAllowed
  <1>4. QED  BY <1>2, <1>3, Steps, TapKeeps, CancelDecideKeeps, CommitKeeps

LEMMA Invariance == Spec => []IInv
  BY InitIInv, NextIInv, PTL DEF Spec

-----------------------------------------------------------------------------
(* Theorems *)

(* Between its SELECT ... FOR UPDATE and its COMMIT a tap or a cancellation *)
(* owns the rows it writes, and what it read of them is still true: with    *)
(* any number of requests on any order, no update is lost.                  *)
THEOREM RowsAlwaysHeld == Spec => []RowsHeld
  <1>1. IInv => RowsHeld  BY DEF IInv
  <1>2. QED  BY <1>1, Invariance, PTL

(* The audit table reconstructs every item's history without a gap.         *)
THEOREM AuditTellsAll == Spec => []AuditChain
  <1>1. IInv => AuditChain  BY DEF IInv
  <1>2. QED  BY <1>1, Invariance, PTL

(* An item's status changes only by the commit of a transaction that was    *)
(* allowed to by the status the item has at that very moment.               *)
LEMMA StatusStep ==
  ASSUME IInv, [Next]_vars, NEW i \in Item, status'[i] # status[i]
  PROVE  \E r \in Request :
            /\ status'[i] = job[r].to
            /\ audit'[i] = Append(audit[i],
                  [from |-> status[i], to |-> job[r].to, by |-> job[r].by])
            /\ IF job[r].to = "cancelled"
                 THEN status[i] \in Cancellable
                 ELSE TapAllowed(job[r].by, status[i], job[r].to)
  <1>1. TypeOK  BY DEF IInv
  <1>2. PICK r \in Request : Commit(r)
    <2>1. \A q \in Request : ~Calm(q)  BY DEF Calm
    <2>2. \A q \in Request : ~AroundWrite(q) /\ ~Settles(q) /\ ~Fail(q)
          BY <1>1, <2>1, AroundCalm, SettlesCalm, FailCalm
    <2>3. \A q \in Request : ~Tap(q) /\ ~CancelDecide(q)  BY DEF Tap, CancelDecide, dbVars
    <2>4. ~UNCHANGED vars  BY DEF vars
    <2>5. QED  BY <2>2, <2>3, <2>4, Steps
  <1>3. i \in DOMAIN job[r].rows  BY <1>2, CommitWrites
  <1>4. status[i] = job[r].rows[i]  BY <1>2, <1>3 DEF Commit, IInv, RowsHeld
  <1>5. IF job[r].to = "cancelled"
          THEN status[i] \in Cancellable
          ELSE TapAllowed(job[r].by, status[i], job[r].to)
        BY <1>2, <1>3, <1>4 DEF Commit, IInv, WriteAllowed
  <1>6. QED  BY <1>2, <1>3, <1>5, CommitWrites

(* What has been served stays on the bill: no cancellation takes back an    *)
(* item that is already served, however it interleaves with the serving.    *)
THEOREM ServedStaysOnBill == Spec => ServedNotCancelled
  <1>1. ASSUME IInv, [Next]_vars
        PROVE  \A i \in Item : status[i] = "served" => status'[i] # "cancelled"
    <2> SUFFICES ASSUME NEW i \in Item, status[i] = "served", status'[i] = "cancelled"
                 PROVE  FALSE
        OBVIOUS
    <2>1. status[i] \in Cancellable  BY <1>1, StatusStep
    <2>2. QED  BY <2>1 DEF Cancellable
  <1>2. QED  BY <1>1, Invariance, PTL DEF Spec, ServedNotCancelled

LEMMA LastOfAppend ==
  ASSUME NEW trail \in Seq(AuditRow), NEW row
  PROVE  LET new == Append(trail, row) IN new[Len(new)] = row
  OBVIOUS

(* An item moves back on the line only by an admin's override.              *)
THEOREM OnlyForward == Spec => ForwardOnly
  <1>1. ASSUME IInv, [Next]_vars
        PROVE  \A i \in Item : Index[status'[i]] < Index[status[i]] =>
                 \/ status'[i] = "cancelled"
                 \/ audit'[i][Len(audit'[i])].by = "admin"
    <2> SUFFICES ASSUME NEW i \in Item, Index[status'[i]] < Index[status[i]],
                        status'[i] # "cancelled"
                 PROVE  audit'[i][Len(audit'[i])].by = "admin"
        OBVIOUS
    <2>1. status[i] \in ItemStatus  BY <1>1 DEF IInv, TypeOK
    <2>2. Index[status[i]] \in Int  BY <2>1 DEF Index, ItemStatus, LineStatus
    <2>3. status'[i] # status[i]  BY <2>2
    <2>4. PICK r \in Request :
             /\ status'[i] = job[r].to
             /\ audit'[i] = Append(audit[i],
                   [from |-> status[i], to |-> job[r].to, by |-> job[r].by])
             /\ job[r].to # "cancelled" =>
                   TapAllowed(job[r].by, status[i], job[r].to)
          BY <1>1, <2>3, StatusStep
    <2>5. job[r].by = "admin"  BY <2>4 DEF TapAllowed
    <2>6. audit[i] \in Seq(AuditRow)  BY <1>1 DEF IInv, TypeOK
    <2> DEFINE row == [from |-> status[i], to |-> job[r].to, by |-> job[r].by]
    <2>7. row.by = "admin"  BY <2>5
    <2>8. audit'[i] = Append(audit[i], row)  BY <2>4
    <2> HIDE DEF row
    <2>9. QED  BY <2>6, <2>7, <2>8, LastOfAppend
  <1>2. QED  BY <1>1, Invariance, PTL DEF Spec, ForwardOnly
=============================================================================
