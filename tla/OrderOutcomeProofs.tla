-------------------------- MODULE OrderOutcomeProofs --------------------------
(***************************************************************************)
(* What an order's requests leave behind once they have committed, for any *)
(* number of items and requests: what is announced, sent and reported.     *)
(* Rests on the invariant of the two transactions, IInv.                   *)
(***************************************************************************)
EXTENDS OrderLifecycleProofs, FiniteSetTheorems

-----------------------------------------------------------------------------
(* A customer's cancellation *)

(* Preparing a write leaves everything but the request and the locks alone. *)
LEMMA Prepares ==
  ASSUME IInv, NEW r \in Request, Tap(r) \/ CancelDecide(r)
  PROVE  /\ Alone(r)
         /\ pc[r] \notin OnItsWay /\ pc[r] # "announce" /\ pc'[r] = "write"
         /\ UNCHANGED <<status, audit, payment, receiptRow, receiptsSent, completions,
                        reports, pastVars>>
  BY DEF IInv, TypeOK, Tap, CancelDecide, AllLocked, Goto, Alone, OnItsWay, dbVars, sentVars

LEMMA UntouchedStep ==
  ASSUME IInv, CustomerCancelsUntouched, [Next]_vars
  PROVE  CustomerCancelsUntouched'
  <1>0. TypeOK /\ JobFits  BY DEF IInv
  <1>1. ASSUME NEW r \in Request, AroundWrite(r) \/ Settles(r) \/ Fail(r)
        PROVE  CustomerCancelsUntouched'
    <2>1. Calm(r)  BY <1>0, <1>1, AroundCalm, SettlesCalm, FailCalm
    <2>2. QED  BY <2>1 DEF Calm, Alone, CustomerCancelsUntouched
  <1>2. ASSUME NEW r \in Request, Tap(r)
        PROVE  CustomerCancelsUntouched'
    <2>1. Alone(r) /\ status' = status  BY <1>2, Prepares
    <2>2. job'[r].by # "customer"  BY <1>0, <1>2, TapReads DEF Tap, JobFits
    <2>3. QED  BY <2>1, <2>2 DEF Alone, CustomerCancelsUntouched
  <1>3. ASSUME NEW r \in Request, CancelDecide(r)
        PROVE  CustomerCancelsUntouched'
    <2>1. Alone(r) /\ status' = status  BY <1>3, Prepares
    <2>2. job'[r].by = job[r].by  BY <1>0, <1>3, CancelReads
    <2>3. job[r].by = "customer" => \A i \in Item : status[i] \in {"received", "cancelled"}
          BY <1>3 DEF CancelDecide, CancelAllowed, Live
    <2>4. QED  BY <2>1, <2>2, <2>3 DEF Alone, CustomerCancelsUntouched
  <1>4. ASSUME NEW r \in Request, Commit(r)
        PROVE  CustomerCancelsUntouched'
    <2> SUFFICES ASSUME NEW q \in Request, pc'[q] = "write", job'[q].by = "customer", NEW i \in Item
                 PROVE  status'[i] \in {"received", "cancelled"}
        BY DEF CustomerCancelsUntouched
    <2>1. q # r /\ pc[q] = "write" /\ job[q] = job'[q]  BY <1>0, <1>4, CommitAlone DEF Alone
    <2>2. lock[i] = q  BY <2>1 DEF JobFits, IInv, RowsHeld
    <2>3. status'[i] = status[i]  BY <1>4, <2>1, <2>2, CommitWrites
    <2>4. QED  BY <2>1, <2>3 DEF CustomerCancelsUntouched
  <1>5. CASE UNCHANGED vars  BY <1>5 DEF vars, CustomerCancelsUntouched
  <1>6. QED  BY <1>1, <1>2, <1>3, <1>4, <1>5, Steps

(* A customer's cancellation that has been let through commits on an order  *)
(* nobody has started on, whichever taps are waiting for the same rows.     *)
THEOREM CustomersCancelUntouched == Spec => []CustomerCancelsUntouched
  <1>1. Init => CustomerCancelsUntouched  BY DEF Init, CustomerCancelsUntouched
  <1>2. QED  BY <1>1, UntouchedStep, Invariance, PTL DEF Spec

-----------------------------------------------------------------------------
(* Receipts *)

(* Whoever sends the receipt is the one whose insert made the row.          *)
ReceiptInv ==
    /\ ReceiptOnce
    /\ \A r \in Request : pc[r] \in {"reportPaid", "receipt", "sendReceipt"} => payment = "paid"
    /\ \A r \in Request : pc[r] = "sendReceipt" =>
          receiptRow /\ receiptsSent = 0 /\ \A q \in Request \ {r} : pc[q] # "sendReceipt"
    /\ ~receiptRow => receiptsSent = 0

LEMMA ReceiptStep ==
  ASSUME IInv, ReceiptInv, [Next]_vars
  PROVE  ReceiptInv'
  <1> USE DEF ReceiptInv, ReceiptOnce
  <1>0. TypeOK  BY DEF IInv
  <1>1. ASSUME NEW r \in Request, pc'[r] \notin {"reportPaid", "receipt", "sendReceipt"}, Alone(r),
               UNCHANGED <<payment, receiptRow, receiptsSent>>
        PROVE  ReceiptInv'
        BY <1>1 DEF Alone
  <1>2. ASSUME NEW r \in Request, AroundWrite(r) \/ Tap(r) \/ CancelDecide(r) \/ Commit(r)
        PROVE  ReceiptInv'
    <2>1. /\ pc'[r] \notin {"reportPaid", "receipt", "sendReceipt"} /\ Alone(r)
          /\ UNCHANGED <<payment, receiptRow, receiptsSent>>
          BY <1>0, <1>2, AroundCalm, Prepares, CommitAlone DEF Calm, OnItsWay
    <2>2. QED  BY <1>1, <2>1
  <1>3. ASSUME NEW r \in Request, NoReceipt(r) \/ CheckComplete(r) \/ CloseRoom(r) \/ Fail(r)
        PROVE  ReceiptInv'
    <2>1. Alone(r)  BY <1>0, <1>3, SettlesCalm, FailCalm DEF Settles, Calm
    <2>2. /\ pc'[r] \notin {"reportPaid", "receipt", "sendReceipt"}
          /\ UNCHANGED <<payment, receiptRow, receiptsSent>>
          BY <1>0, <1>3 DEF NoReceipt, CheckComplete, CloseRoom, Fail, Finish, Goto, TypeOK, dbVars, sentVars
    <2>3. QED  BY <1>1, <2>1, <2>2
  <1>4. ASSUME NEW r \in Request, Pay(r) PROVE ReceiptInv'
        BY <1>0, <1>4 DEF Pay, Goto, TypeOK, sentVars
  <1>5. ASSUME NEW r \in Request, ReportPaid(r) PROVE ReceiptInv'
        BY <1>0, <1>5 DEF ReportPaid, Goto, TypeOK, dbVars
  <1>6. ASSUME NEW r \in Request, IssueReceipt(r) PROVE ReceiptInv'
        BY <1>0, <1>6 DEF IssueReceipt, MintsReceipt, Goto, TypeOK, sentVars
  <1>7. ASSUME NEW r \in Request, SendReceipt(r) PROVE ReceiptInv'
        BY <1>0, <1>7 DEF SendReceipt, Goto, TypeOK, dbVars
  <1>8. CASE UNCHANGED vars  BY <1>8 DEF vars
  <1>9. QED  BY <1>2, <1>3, <1>4, <1>5, <1>6, <1>7, <1>8, Steps DEF Settles

(* However many payments of one order race, at most one of them sends the   *)
(* receipt, and only once the order is paid.                                *)
THEOREM OneReceipt == Spec => []ReceiptOnce
  <1>1. Init => ReceiptInv  BY DEF Init, ReceiptInv, ReceiptOnce
  <1>2. ReceiptInv => ReceiptOnce  BY DEF ReceiptInv
  <1>3. QED  BY <1>1, <1>2, ReceiptStep, Invariance, PTL DEF Spec

-----------------------------------------------------------------------------
(* Completion *)

Left(i) == \E k \in DOMAIN audit[i] : audit[i][k].from \in Terminal

(* What a check of completion has established stays true but for items that *)
(* are taken out of a terminal status, which their audit trail shows.       *)
ClosingInv ==
    completions > 0 \/ (\E r \in Request : pc[r] = "closeRoom") =>
        /\ payment = "paid"
        /\ \A i \in Item : status[i] \in Terminal \/ Left(i)

LEMMA TrailKeeps ==
  ASSUME IInv, NEW r \in Request, Commit(r), NEW i \in Item, status[i] \in Terminal \/ Left(i)
  PROVE  status'[i] \in Terminal \/ Left(i)'
  <1>1. CASE status'[i] = status[i] /\ audit'[i] = audit[i]  BY <1>1 DEF Left
  <1>2. CASE i \in DOMAIN job[r].rows
    <2> DEFINE row == [from |-> status[i], to |-> job[r].to, by |-> job[r].by]
    <2>1. audit'[i] = Append(audit[i], row) /\ row.from = status[i]  BY <1>2, CommitWrites
    <2>2. row \in AuditRow /\ audit[i] \in Seq(AuditRow)  BY <1>2, CommitRow DEF IInv, TypeOK
    <2> HIDE DEF row
    <2>3. /\ DOMAIN audit[i] = 1 .. Len(audit[i]) /\ Len(audit[i]) \in Nat
          /\ DOMAIN audit'[i] = 1 .. Len(audit[i]) + 1
          /\ audit'[i][Len(audit[i]) + 1] = row
          /\ \A k \in 1 .. Len(audit[i]) : audit'[i][k] = audit[i][k]
          BY <2>1, <2>2
    <2>4. CASE status[i] \in Terminal  BY <2>1, <2>3, <2>4 DEF Left
    <2>5. CASE Left(i)
      <3>1. PICK k \in DOMAIN audit[i] : audit[i][k].from \in Terminal  BY <2>5 DEF Left
      <3>2. k \in DOMAIN audit'[i] /\ audit'[i][k].from \in Terminal  BY <2>3, <3>1
      <3>3. QED  BY <3>2 DEF Left
    <2>6. QED  BY <2>4, <2>5
  <1>3. QED  BY <1>1, <1>2, CommitWrites

LEMMA ClosingStep ==
  ASSUME IInv, ClosingInv, [Next]_vars
  PROVE  ClosingInv'
  <1>0. TypeOK  BY DEF IInv
  <1>1. ASSUME NEW r \in Request, pc'[r] # "closeRoom", Alone(r),
               UNCHANGED <<completions, status, audit>>, payment' = payment \/ payment' = "paid"
        PROVE  ClosingInv'
        BY <1>1 DEF ClosingInv, Left, Alone
  <1>2. ASSUME NEW r \in Request, Commit(r)
        PROVE  ClosingInv'
    <2>1. pc'[r] # "closeRoom" /\ Alone(r) /\ UNCHANGED <<payment, completions>>
          BY <1>0, <1>2, CommitAlone
    <2>2. QED  BY <1>2, <2>1, TrailKeeps DEF ClosingInv, Alone
  <1>3. ASSUME NEW r \in Request, AroundWrite(r) \/ Tap(r) \/ CancelDecide(r)
        PROVE  ClosingInv'
    <2>1. /\ pc'[r] # "closeRoom" /\ Alone(r)
          /\ UNCHANGED <<payment, completions, status, audit>>
          BY <1>0, <1>3, AroundCalm, Prepares DEF Calm, OnItsWay
    <2>2. QED  BY <1>1, <2>1
  <1>4. ASSUME NEW r \in Request,
               Pay(r) \/ ReportPaid(r) \/ IssueReceipt(r) \/ NoReceipt(r) \/ SendReceipt(r)
        PROVE  ClosingInv'
    <2>1. pc'[r] # "closeRoom" /\ completions' = completions /\ (payment' = payment \/ payment' = "paid")
          BY <1>0, <1>4 DEF Pay, ReportPaid, IssueReceipt, NoReceipt, SendReceipt, Goto, TypeOK, dbVars, sentVars
    <2>2. QED  BY <1>0, <1>1, <1>4, <2>1, SettlesCalm DEF Settles, Calm
  <1>5. ASSUME NEW r \in Request, CheckComplete(r)
        PROVE  ClosingInv'
    <2>1. /\ UNCHANGED <<payment, completions, status, audit>>
          /\ Alone(r)
          /\ pc'[r] = IF Complete THEN "closeRoom" ELSE "done"
          BY <1>0, <1>5 DEF CheckComplete, Goto, TypeOK, dbVars, sentVars, Alone
    <2>2. CASE Complete  BY <2>1, <2>2 DEF ClosingInv, Complete
    <2>3. CASE ~Complete  BY <1>1, <2>1, <2>3
    <2>4. QED  BY <2>2, <2>3
  <1>6. ASSUME NEW r \in Request, CloseRoom(r)
        PROVE  ClosingInv'
        BY <1>6 DEF CloseRoom, ClosingInv, Left, dbVars
  <1>7. ASSUME NEW r \in Request, Fail(r)
        PROVE  ClosingInv'
    <2>1. pc'[r] # "closeRoom" /\ Alone(r)  BY <1>0, <1>7, FailCalm DEF Calm
    <2>2. UNCHANGED <<payment, completions, status, audit>>  BY <1>7 DEF Fail, dbVars, sentVars
    <2>3. QED  BY <1>1, <2>1, <2>2
  <1>8. CASE UNCHANGED vars  BY <1>8 DEF vars, ClosingInv, Left
  <1>9. QED  BY <1>2, <1>3, <1>4, <1>5, <1>6, <1>7, <1>8, Steps DEF Settles

(* Once order_complete has been sent, the order is paid and every item is   *)
(* served or cancelled, or was so before it was moved on.                   *)
THEOREM AnnouncedIsComplete == Spec => []AnnouncedStaysComplete
  <1>1. Init => ClosingInv  BY DEF Init, ClosingInv
  <1>2. ClosingInv => AnnouncedStaysComplete  BY DEF ClosingInv, AnnouncedStaysComplete, Left
  <1>3. IInv /\ ClosingInv /\ [Next]_vars => ClosingInv'  BY ClosingStep
  <1>4. QED  BY <1>1, <1>2, <1>3, Invariance, PTL DEF Spec

LEMMA MissedStep ==
  ASSUME IInv, CompletionNotMissed, [Next]_vars
  PROVE  CompletionNotMissed'
  <1>0. TypeOK /\ JobFits  BY DEF IInv
  <1>1. ASSUME NEW r \in Request, Alone(r),
               pc[r] \notin OnItsWay \/ pc'[r] \in OnItsWay,
               UNCHANGED <<completions, status, payment, lateCancel, unchecked>>
        PROVE  CompletionNotMissed'
    <2>1. Complete' <=> Complete  BY <1>1 DEF Complete
    <2>2. QED  BY <1>1, <2>1 DEF CompletionNotMissed, Alone
  <1>2. ASSUME NEW r \in Request, Commit(r)
        PROVE  CompletionNotMissed'
    <2>1. /\ UNCHANGED <<payment, completions, unchecked>> /\ Alone(r)
          /\ pc[r] = "write" /\ pc'[r] = AfterCommit(job[r])
          BY <1>0, <1>2, CommitAlone
    <2>2. pc[r] \notin OnItsWay  BY <2>1 DEF OnItsWay
    <2>3. CASE status' = status
      <3>1. (Complete' <=> Complete) /\ (~lateCancel' => ~lateCancel)
            BY <1>2, <2>1, <2>3 DEF Complete, Commit
      <3>2. QED  BY <2>1, <2>2, <3>1 DEF CompletionNotMissed, Alone
    <2>4. CASE status' # status
      <3>1. PICK i \in Item : i \in DOMAIN job[r].rows /\ status'[i] = job[r].to
        <4>1. status \in [Item -> ItemStatus] /\ status' \in [Item -> ItemStatus]
              BY <1>0, TypeNext DEF TypeOK
        <4>2. PICK i \in Item : status'[i] # status[i]  BY <2>4, <4>1
        <4>3. QED  BY <1>2, <4>2, CommitWrites
      <3>2. CASE job[r].to = "cancelled"
        <4>1. payment = "paid" => lateCancel'  BY <1>2, <3>2 DEF Commit
        <4>2. QED  BY <2>1, <4>1 DEF CompletionNotMissed, Complete
      <3>3. CASE job[r].to = "served"
        <4>1. pc'[r] = "finalize"  BY <1>0, <2>1, <3>3 DEF AfterCommit, JobFits
        <4>2. QED  BY <4>1 DEF CompletionNotMissed, OnItsWay
      <3>4. CASE job[r].to \notin Terminal
            BY <3>1, <3>4 DEF CompletionNotMissed, Complete
      <3>5. QED  BY <3>2, <3>3, <3>4 DEF Terminal
    <2>5. QED  BY <2>3, <2>4
  <1>3. ASSUME NEW r \in Request, AroundWrite(r) \/ Tap(r) \/ CancelDecide(r)
        PROVE  CompletionNotMissed'
    <2>1. /\ pc[r] \notin OnItsWay /\ Alone(r)
          /\ UNCHANGED <<payment, completions, status, lateCancel, unchecked>>
          BY <1>0, <1>3, AroundCalm, Prepares DEF Calm, pastVars
    <2>2. QED  BY <1>1, <2>1
  <1>4. ASSUME NEW r \in Request, Pay(r)
        PROVE  CompletionNotMissed'
    <2>1. pc'[r] = "reportPaid"  BY <1>0, <1>4 DEF Pay, Goto, TypeOK
    <2>2. QED  BY <2>1 DEF CompletionNotMissed, OnItsWay
  <1>5. ASSUME NEW r \in Request, ReportPaid(r) \/ IssueReceipt(r) \/ NoReceipt(r) \/ SendReceipt(r)
        PROVE  CompletionNotMissed'
    <2>1. pc'[r] \in OnItsWay /\ UNCHANGED <<completions, payment>>
          BY <1>0, <1>5 DEF ReportPaid, IssueReceipt, NoReceipt, SendReceipt, Goto, TypeOK, dbVars, sentVars, OnItsWay
    <2>2. Calm(r) /\ UNCHANGED <<lateCancel, unchecked>>  BY <1>0, <1>5, SettlesCalm DEF Settles
    <2>3. QED  BY <1>1, <2>1, <2>2 DEF Calm
  <1>6. ASSUME NEW r \in Request, CheckComplete(r)
        PROVE  CompletionNotMissed'
    <2>1. /\ pc'[r] = IF Complete THEN "closeRoom" ELSE "done"
          /\ UNCHANGED <<payment, completions, status>>
          BY <1>0, <1>6 DEF CheckComplete, Goto, TypeOK, dbVars, sentVars
    <2>2. Complete' <=> Complete  BY <2>1 DEF Complete
    <2>3. QED  BY <2>1, <2>2 DEF CompletionNotMissed, OnItsWay
  <1>7. ASSUME NEW r \in Request, CloseRoom(r)
        PROVE  CompletionNotMissed'
        BY <1>0, <1>7 DEF CloseRoom, TypeOK, CompletionNotMissed
  <1>8. ASSUME NEW r \in Request, Fail(r)
        PROVE  CompletionNotMissed'
    <2>1. CASE pc[r] \in OnItsWay  BY <1>8, <2>1 DEF Fail, CompletionNotMissed
    <2>2. CASE pc[r] \notin OnItsWay
      <3>1. UNCHANGED <<completions, status, payment, lateCancel, unchecked>>
            BY <1>0, <1>8, <2>2 DEF Fail, dbVars, sentVars, TypeOK
      <3>2. QED  BY <1>0, <1>1, <1>8, <2>2, <3>1, FailCalm DEF Calm
    <2>3. QED  BY <2>1, <2>2
  <1>9. CASE UNCHANGED vars
    <2>1. Complete' <=> Complete  BY <1>9 DEF vars, Complete
    <2>2. QED  BY <1>9, <2>1 DEF vars, CompletionNotMissed
  <1>10. QED  BY <1>2, <1>3, <1>4, <1>5, <1>6, <1>7, <1>8, <1>9, Steps DEF Settles

(* Whichever of the payment and the last serve commits first, order_complete *)
(* has been sent or a request is on its way to send it, unless a request    *)
(* failed on that way or a cancellation committed after the payment.        *)
THEOREM CompletionIsNotMissed == Spec => []CompletionNotMissed
  <1>1. Init => CompletionNotMissed
    <2>1. Init => ~Complete
          BY OrderAssumption DEF Init, Complete
    <2>2. QED  BY <2>1 DEF CompletionNotMissed
  <1>2. QED  BY <1>1, MissedStep, Invariance, PTL DEF Spec

-----------------------------------------------------------------------------
(* Reported cancellations *)

SalesInv ==
    \A i \in Item :
        /\ IsFiniteSet(PendingCancels(i))
        /\ Cardinality(ReportedCancels(i)) + Cardinality(PendingCancels(i))
              <= Cardinality(CommittedCancels(i))

(* The indices of a sequence that satisfy something: one more, or none, when *)
(* an element is appended.                                                  *)
LEMMA Indices ==
  ASSUME NEW n \in Nat, NEW S \in SUBSET (1 .. n)
  PROVE  /\ IsFiniteSet(S) /\ Cardinality(S) \in Nat
         /\ Cardinality(S \union {n + 1}) = Cardinality(S) + 1
  <1>1. IsFiniteSet(1 .. n)  BY FS_Interval
  <1>2. IsFiniteSet(S)  BY <1>1, FS_Subset
  <1>3. n + 1 \notin S  OBVIOUS
  <1>4. QED  BY <1>2, <1>3, FS_AddElement, FS_CardinalityType

LEMMA Trails ==
  ASSUME TypeOK, NEW i \in Item
  PROVE  /\ Len(audit[i]) \in Nat /\ CommittedCancels(i) \in SUBSET (1 .. Len(audit[i]))
         /\ Len(reports) \in Nat /\ ReportedCancels(i) \in SUBSET (1 .. Len(reports))
  BY DEF TypeOK, CommittedCancels, ReportedCancels

(* A step that reports nothing about the item, and commits no cancellation. *)
LEMMA SalesKept ==
  ASSUME TypeOK, TypeOK', SalesInv, NEW i \in Item,
         PendingCancels(i)' = PendingCancels(i), ReportedCancels(i)' = ReportedCancels(i),
         CommittedCancels(i)' = CommittedCancels(i)
  PROVE  /\ IsFiniteSet(PendingCancels(i)')
         /\ Cardinality(ReportedCancels(i)') + Cardinality(PendingCancels(i)')
              <= Cardinality(CommittedCancels(i)')
  BY DEF SalesInv

LEMMA CommitSells ==
  ASSUME IInv, TypeOK', SalesInv, NEW r \in Request, Commit(r), NEW i \in Item
  PROVE  /\ IsFiniteSet(PendingCancels(i)')
         /\ Cardinality(ReportedCancels(i)') + Cardinality(PendingCancels(i)')
              <= Cardinality(CommittedCancels(i)')
  <1>0. TypeOK /\ JobFits  BY DEF IInv
  <1>1. /\ pc[r] = "write" /\ pc'[r] = AfterCommit(job[r]) /\ reports' = reports
        /\ \A q \in Request \ {r} : pc'[q] = pc[q] /\ job'[q] = job[q]
        /\ pc'[r] = "announce" => job[r].to = "cancelled" /\ job'[r] = job[r]
        /\ job[r].to = "cancelled" => pc'[r] = "announce"
    <2>1. pc[r] = "write" /\ pc'[r] = AfterCommit(job[r]) /\ reports' = reports
          BY <1>0, CommitAlone
    <2>2. AfterCommit(job[r]) = "announce" <=> job[r].to = "cancelled"
          BY <1>0, <2>1 DEF JobFits, AfterCommit
    <2>3. AfterCommit(job[r]) = "announce" => job' = job  BY DEF Commit
    <2>4. \A q \in Request \ {r} : pc'[q] = pc[q] /\ job'[q] = job[q]  BY <1>0, CommitAlone DEF Alone
    <2>5. QED  BY <2>1, <2>2, <2>3, <2>4
  <1>2. ReportedCancels(i)' = ReportedCancels(i)  BY <1>1 DEF ReportedCancels
  <1>3. CASE i \in DOMAIN job[r].rows
    <2> DEFINE row == [from |-> status[i], to |-> job[r].to, by |-> job[r].by]
               n == Len(audit[i])
    <2>1. audit'[i] = Append(audit[i], row) /\ row.to = job[r].to  BY <1>3, CommitWrites
    <2>2. row \in AuditRow /\ audit[i] \in Seq(AuditRow)  BY <1>0, <1>3, CommitRow DEF TypeOK
    <2> HIDE DEF row
    <2>3. /\ DOMAIN audit[i] = 1 .. n /\ n \in Nat /\ DOMAIN audit'[i] = 1 .. n + 1
          /\ audit'[i][n + 1] = row
          /\ \A k \in 1 .. n : audit'[i][k] = audit[i][k]
          BY <2>1, <2>2
    <2>4. CASE job[r].to = "cancelled"
      <3>1. CommittedCancels(i)' = CommittedCancels(i) \union {n + 1}
        <4>1. \A k \in 1 .. n + 1 : k \in 1 .. n \/ k = n + 1  BY <2>3
        <4>2. 1 .. n \subseteq 1 .. n + 1 /\ n + 1 \in 1 .. n + 1  BY <2>3
        <4> HIDE DEF n
        <4>3. QED  BY <2>1, <2>3, <2>4, <4>1, <4>2 DEF CommittedCancels
      <3>2. PendingCancels(i)' = PendingCancels(i) \union {r} /\ r \notin PendingCancels(i)
            BY <1>1, <1>3, <2>4 DEF PendingCancels
      <3>3. /\ Cardinality(CommittedCancels(i)') = Cardinality(CommittedCancels(i)) + 1
            /\ Cardinality(CommittedCancels(i)) \in Nat /\ Cardinality(ReportedCancels(i)) \in Nat
            BY <1>0, <3>1, Trails, Indices
      <3>4. /\ IsFiniteSet(PendingCancels(i)')
            /\ Cardinality(PendingCancels(i)') = Cardinality(PendingCancels(i)) + 1
            /\ Cardinality(PendingCancels(i)) \in Nat
            BY <3>2, FS_AddElement, FS_CardinalityType DEF SalesInv
      <3>5. QED  BY <1>2, <3>3, <3>4 DEF SalesInv
    <2>5. CASE job[r].to # "cancelled"
      <3>1. CommittedCancels(i)' = CommittedCancels(i)
        <4>1. \A k \in 1 .. n + 1 : k \in 1 .. n \/ k = n + 1  BY <2>3
        <4>2. 1 .. n \subseteq 1 .. n + 1  BY <2>3
        <4> HIDE DEF n
        <4>3. QED  BY <2>1, <2>3, <2>5, <4>1, <4>2 DEF CommittedCancels
      <3>2. PendingCancels(i)' = PendingCancels(i)  BY <1>1, <2>5 DEF PendingCancels
      <3>3. QED  BY <1>0, <1>2, <3>1, <3>2, SalesKept
    <2>6. QED  BY <2>4, <2>5
  <1>4. CASE i \notin DOMAIN job[r].rows
    <2>1. audit'[i] = audit[i]  BY <1>4, CommitWrites
    <2>2. CommittedCancels(i)' = CommittedCancels(i)  BY <2>1 DEF CommittedCancels
    <2>3. PendingCancels(i)' = PendingCancels(i)  BY <1>1, <1>4 DEF PendingCancels
    <2>4. QED  BY <1>0, <1>2, <2>2, <2>3, SalesKept
  <1>5. QED  BY <1>3, <1>4

(* What an event, once appended, adds to the reports about an item.         *)
LEMMA Reporting ==
  ASSUME TypeOK, NEW kind \in {"order_paid", "order_items_cancelled"}, NEW items \in SUBSET Item,
         reports' \in Enqueued(kind, items), NEW i \in Item
  PROVE  \/ ReportedCancels(i)' = ReportedCancels(i)
         \/ i \in items /\ ReportedCancels(i)' = ReportedCancels(i) \union {Len(reports) + 1}
  <1> DEFINE event == [kind |-> kind, items |-> items]
             n == Len(reports)
  <1>1. CASE reports' = reports  BY <1>1 DEF ReportedCancels
  <1>2. CASE reports' = Append(reports, event)
    <2>1. event \in Report /\ event.items = items /\ reports \in Seq(Report)  BY DEF Report, TypeOK
    <2> HIDE DEF event
    <2>2. /\ DOMAIN reports = 1 .. n /\ n \in Nat /\ DOMAIN reports' = 1 .. n + 1
          /\ reports'[n + 1] = event
          /\ \A k \in 1 .. n : reports'[k] = reports[k]
          BY <1>2, <2>1
    <2>3. \A k \in 1 .. n + 1 : k \in 1 .. n \/ k = n + 1  BY <2>2
    <2>4. 1 .. n \subseteq 1 .. n + 1 /\ n + 1 \in 1 .. n + 1  BY <2>2
    <2> HIDE DEF n
    <2>5. CASE i \in items
      <3>1. ReportedCancels(i)' = ReportedCancels(i) \union {n + 1}
            BY <2>1, <2>2, <2>3, <2>4, <2>5 DEF ReportedCancels
      <3>2. QED  BY <2>5, <3>1 DEF n
    <2>6. CASE i \notin items
          BY <2>1, <2>2, <2>3, <2>4, <2>6 DEF ReportedCancels
    <2>7. QED  BY <2>5, <2>6
  <1>3. QED  BY <1>1, <1>2 DEF Enqueued

LEMMA AnnounceSells ==
  ASSUME TypeOK, TypeOK', SalesInv, NEW r \in Request, Announce(r), NEW i \in Item
  PROVE  /\ IsFiniteSet(PendingCancels(i)')
         /\ Cardinality(ReportedCancels(i)') + Cardinality(PendingCancels(i)')
              <= Cardinality(CommittedCancels(i)')
  <1>1. /\ pc[r] = "announce" /\ pc'[r] = "done" /\ audit' = audit
        /\ \A q \in Request \ {r} : pc'[q] = pc[q] /\ job'[q] = job[q]
        BY DEF Announce, Finish, Goto, TypeOK, dbVars
  <1>2. CommittedCancels(i)' = CommittedCancels(i)  BY <1>1 DEF CommittedCancels
  <1>3. \/ ReportedCancels(i)' = ReportedCancels(i)
        \/ /\ i \in DOMAIN job[r].rows
           /\ ReportedCancels(i)' = ReportedCancels(i) \union {Len(reports) + 1}
        BY RowsType, Reporting DEF Announce, ReportedItems
  <1>4. /\ Cardinality(ReportedCancels(i)) \in Nat /\ Cardinality(CommittedCancels(i)) \in Nat
        /\ Cardinality(ReportedCancels(i) \union {Len(reports) + 1}) = Cardinality(ReportedCancels(i)) + 1
        BY Trails, Indices
  <1>5. CASE i \in DOMAIN job[r].rows
    <2>1. PendingCancels(i)' = PendingCancels(i) \ {r} /\ r \in PendingCancels(i)
          BY <1>1, <1>5 DEF PendingCancels
    <2>2. /\ IsFiniteSet(PendingCancels(i)')
          /\ Cardinality(PendingCancels(i)') = Cardinality(PendingCancels(i)) - 1
          /\ Cardinality(PendingCancels(i)) \in Nat
          BY <2>1, FS_RemoveElement, FS_CardinalityType DEF SalesInv
    <2>3. Cardinality(ReportedCancels(i)) + Cardinality(PendingCancels(i)) <= Cardinality(CommittedCancels(i))
          BY DEF SalesInv
    <2>4. Cardinality(ReportedCancels(i)') <= Cardinality(ReportedCancels(i)) + 1
          /\ Cardinality(ReportedCancels(i)') \in Nat
      <3>1. CASE ReportedCancels(i)' = ReportedCancels(i)  BY <3>1, <1>4
      <3>2. CASE ReportedCancels(i)' = ReportedCancels(i) \union {Len(reports) + 1}  BY <3>2, <1>4
      <3>3. QED  BY <1>3, <3>1, <3>2
    <2>5. QED  BY <1>2, <1>4, <2>2, <2>3, <2>4
  <1>6. CASE i \notin DOMAIN job[r].rows
    <2>1. PendingCancels(i)' = PendingCancels(i)  BY <1>1, <1>6 DEF PendingCancels
    <2>2. QED  BY <1>2, <1>3, <1>6, <2>1, SalesKept
  <1>7. QED  BY <1>5, <1>6

(* Cancellations on their way that a failure drops are never reported.      *)
LEMMA FailSells ==
  ASSUME TypeOK, TypeOK', SalesInv, NEW r \in Request, Fail(r), NEW i \in Item
  PROVE  /\ IsFiniteSet(PendingCancels(i)')
         /\ Cardinality(ReportedCancels(i)') + Cardinality(PendingCancels(i)')
              <= Cardinality(CommittedCancels(i)')
  <1>1. Alone(r) /\ pc'[r] = "done"  BY FailCalm DEF Calm
  <1>2. reports' = reports /\ audit' = audit  BY DEF Fail, dbVars, sentVars
  <1>3. PendingCancels(i)' = PendingCancels(i) \ {r}  BY <1>1 DEF PendingCancels, Alone
  <1>4. /\ IsFiniteSet(PendingCancels(i)') /\ Cardinality(PendingCancels(i)') \in Nat
        /\ Cardinality(PendingCancels(i)') <= Cardinality(PendingCancels(i))
        /\ Cardinality(PendingCancels(i)) \in Nat
        BY <1>3, FS_Subset, FS_CardinalityType DEF SalesInv
  <1>5. ReportedCancels(i)' = ReportedCancels(i) /\ CommittedCancels(i)' = CommittedCancels(i)
        BY <1>2 DEF ReportedCancels, CommittedCancels
  <1>6. /\ Cardinality(ReportedCancels(i)) \in Nat
        /\ Cardinality(CommittedCancels(i)) \in Nat
        BY Trails, Indices
  <1>7. QED  BY <1>4, <1>5, <1>6 DEF SalesInv

LEMMA SalesStep ==
  ASSUME IInv, SalesInv, [Next]_vars
  PROVE  SalesInv'
  <1>0. TypeOK /\ JobFits /\ TypeOK'  BY TypeNext DEF IInv
  <1>1. ASSUME NEW r \in Request, pc[r] # "announce", pc'[r] # "announce", Alone(r),
               UNCHANGED <<audit, reports>>
        PROVE  SalesInv'
    <2>1. \A i \in Item : /\ PendingCancels(i)' = PendingCancels(i)
                          /\ ReportedCancels(i)' = ReportedCancels(i)
                          /\ CommittedCancels(i)' = CommittedCancels(i)
          BY <1>1 DEF PendingCancels, ReportedCancels, CommittedCancels, Alone
    <2>2. QED  BY <1>0, <2>1, SalesKept DEF SalesInv
  <1>2. ASSUME NEW r \in Request, Commit(r) PROVE SalesInv'
        BY <1>0, <1>2, CommitSells DEF SalesInv
  <1>3. ASSUME NEW r \in Request, Announce(r) PROVE SalesInv'
        BY <1>0, <1>3, AnnounceSells DEF SalesInv
  <1>4. ASSUME NEW r \in Request, Tap(r) \/ CancelDecide(r)
        PROVE  SalesInv'
        BY <1>1, <1>4, Prepares
  <1>5. ASSUME NEW r \in Request, AroundWrite(r)
        PROVE  Announce(r) \/ SalesInv'
    <2> SUFFICES ASSUME ~Announce(r) PROVE SalesInv'  OBVIOUS
    <2>1. Alone(r) /\ audit' = audit  BY <1>0, <1>5, AroundCalm DEF Calm
    <2>2. reports' = reports /\ pc[r] # "announce" /\ pc'[r] # "announce"
      <3>1. ASSUME NEW by, NEW i, NEW to, TapBegin(r, by, i, to)
            PROVE  reports' = reports /\ pc[r] # "announce" /\ pc'[r] # "announce"
            BY <1>0, <3>1 DEF TapBegin, Goto, TypeOK, sentVars
      <3>2. ASSUME NEW by, NEW scope, CancelBegin(r, by, scope)
            PROVE  reports' = reports /\ pc[r] # "announce" /\ pc'[r] # "announce"
            BY <1>0, <3>2 DEF CancelBegin, Finish, Goto, TypeOK, sentVars
      <3>3. ASSUME NEW i \in Item, CancelLockRow(r, i)
            PROVE  reports' = reports /\ pc[r] # "announce" /\ pc'[r] # "announce"
            BY <3>3 DEF CancelLockRow, sentVars
      <3>4. CASE TapRefused(r) \/ DeadlockAbort(r) \/ CancelRefused(r) \/ NotifyReady(r)
            BY <1>0, <3>4 DEF TapRefused, DeadlockAbort, CancelRefused, AllLocked, NotifyReady,
                              Finish, Goto, TypeOK, sentVars
      <3>5. QED  BY <1>5, <3>1, <3>2, <3>3, <3>4 DEF AroundWrite
    <2>3. QED  BY <1>1, <2>1, <2>2
  <1>6. ASSUME NEW r \in Request,
               Pay(r) \/ IssueReceipt(r) \/ NoReceipt(r) \/ SendReceipt(r) \/ CheckComplete(r) \/ CloseRoom(r)
        PROVE  SalesInv'
    <2>1. pc[r] # "announce" /\ reports' = reports
          BY <1>6 DEF Pay, IssueReceipt, NoReceipt, SendReceipt, CheckComplete, CloseRoom, sentVars
    <2>2. pc'[r] # "announce" /\ Calm(r)  BY <1>0, <1>6, SettlesCalm DEF Settles
    <2>3. QED  BY <1>1, <2>1, <2>2 DEF Calm
  <1>7. ASSUME NEW r \in Request, ReportPaid(r)
        PROVE  SalesInv'
    <2>1. /\ pc[r] # "announce" /\ pc'[r] # "announce" /\ Calm(r)
          BY <1>0, <1>7, SettlesCalm DEF ReportPaid, Settles
    <2>2. \A i \in Item : ReportedCancels(i)' = ReportedCancels(i)
          BY <1>0, <1>7, Reporting DEF ReportPaid
    <2>3. \A i \in Item : PendingCancels(i)' = PendingCancels(i) /\ CommittedCancels(i)' = CommittedCancels(i)
          BY <2>1 DEF PendingCancels, CommittedCancels, Calm, Alone
    <2>4. QED  BY <1>0, <2>2, <2>3, SalesKept DEF SalesInv
  <1>8. ASSUME NEW r \in Request, Fail(r) PROVE SalesInv'
        BY <1>0, <1>8, FailSells DEF SalesInv
  <1>9. CASE UNCHANGED vars
    <2>1. \A i \in Item : /\ PendingCancels(i)' = PendingCancels(i)
                          /\ ReportedCancels(i)' = ReportedCancels(i)
                          /\ CommittedCancels(i)' = CommittedCancels(i)
          BY <1>9 DEF vars, PendingCancels, ReportedCancels, CommittedCancels
    <2>2. QED  BY <1>0, <2>1, SalesKept DEF SalesInv
  <1>10. QED  BY <1>2, <1>3, <1>4, <1>5, <1>6, <1>7, <1>8, <1>9, Steps DEF Settles

LEMMA SalesInit ==
  ASSUME Init
  PROVE  SalesInv
  <1>1. \A i \in Item : PendingCancels(i) = {} /\ ReportedCancels(i) = {} /\ CommittedCancels(i) = {}
        BY DEF Init, PendingCancels, ReportedCancels, CommittedCancels
  <1>2. IsFiniteSet({}) /\ Cardinality({}) = 0  BY FS_EmptySet
  <1>3. QED  BY <1>1, <1>2 DEF SalesInv

(* The cancellations of an item that are reported, or on their way to be,   *)
(* are no more than those that have been committed.                         *)
THEOREM SalesAreNotUnderstated == Spec => []SalesNotUnderstated
  <1>1. SalesInv => SalesNotUnderstated  BY DEF SalesInv, SalesNotUnderstated
  <1>2. QED  BY <1>1, SalesInit, SalesStep, Invariance, PTL DEF Spec
=============================================================================
