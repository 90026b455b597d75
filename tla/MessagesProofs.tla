--------------------------- MODULE MessagesProofs ---------------------------
(***************************************************************************)
(* What holds of an order's receipt link for any number of pages, links    *)
(* and wrong answers that burn one, and of its messages for any number of  *)
(* jobs, workers, deliveries, reports and mishaps and for every            *)
(* configuration of the deployment.                                        *)
(***************************************************************************)
EXTENDS Messages, FiniteSetTheorems, TLAPS

LinkInv == LinkTypeOK /\ GuessesBounded

-----------------------------------------------------------------------------
(* The steps that concern the link *)

Answered ==
    \E p \in Page :
        \/ \E answer \in Answer : VerifyLookup(p, channel, answer)
        \/ VerifyWrong(p) \/ VerifyRight(p)
Opened == \E p \in Page, token \in inbox : Open(p, token)
Closed == \E p \in Page : Close(p)
Issued == Mints /\ Issue /\ UNCHANGED page
Reissued == Reissue /\ UNCHANGED page

(* Everything that the messages do leaves link and pages alone.             *)
LEMMA LinkSteps ==
    ASSUME [Next]_vars
    PROVE  Answered \/ Opened \/ Closed \/ Issued \/ Reissued \/ Expire \/ UNCHANGED linkVars
<1>1. CASE Requests
  BY <1>1 DEF Requests, PlaceOrder, FirstReady, IssueAndSend, Resend, Issued, Reissued
<1>2. CASE ViewNext(channel)
  BY <1>2 DEF ViewNext, Answered, Closed
<1>3. CASE \E p \in Page : OpenLink(p)
  BY <1>3 DEF OpenLink, Opened
<1>4. CASE UNCHANGED vars
  BY <1>4 DEF vars
<1> QED
  BY <1>1, <1>2, <1>3, <1>4 DEF Next

-----------------------------------------------------------------------------
(* Counting answers *)

LEMMA FewPages ==
    ASSUME NEW some \in SUBSET Page, NEW fewer \in SUBSET some
    PROVE  /\ Cardinality(some) \in Nat /\ Cardinality(fewer) \in Nat /\ Cardinality(Page) \in Nat
           /\ Cardinality(fewer) <= Cardinality(some)
           /\ Cardinality(some) <= Cardinality(Page)
  BY ReceiptLinksAssumption, FS_Subset, FS_CardinalityType

LEMMA OnePageLess ==
    ASSUME NEW some \in SUBSET Page, NEW p \in some
    PROVE  Cardinality(some \ {p}) = Cardinality(some) - 1
  BY ReceiptLinksAssumption, FS_Subset, FS_RemoveElement

-----------------------------------------------------------------------------
(* The invariant *)

PageType == [token: 0 .. MaxLinks, view: View]

LEMMA LinkTypeStep ==
    ASSUME LinkTypeOK, [Next]_vars
    PROVE  LinkTypeOK'
<1> USE DEF LinkTypeOK
<1>0. NoPage \in PageType
  BY ReceiptLinksAssumption DEF NoPage, PageType, View
<1>a. ASSUME NEW p \in Page, NEW view \in View
      PROVE  [page[p] EXCEPT !.view = view] \in PageType
  BY DEF PageType
<1>b. ASSUME NEW p \in Page, NEW shown \in PageType, page' = [page EXCEPT ![p] = shown]
      PROVE  page' \in [Page -> PageType]
  BY <1>b DEF PageType
<1>1. CASE Answered
  <2> PICK p \in Page : \/ \E answer \in Answer : VerifyLookup(p, channel, answer)
                        \/ VerifyWrong(p) \/ VerifyRight(p)
    BY <1>1 DEF Answered
  <2>1. link' \in [token: 0 .. MaxLinks, expired: BOOLEAN, fails: Nat]
    BY DEF VerifyLookup, VerifyWrong, VerifyRight
  <2>2. \E shown \in PageType : page' = [page EXCEPT ![p] = shown]
    BY <1>0, <1>a DEF VerifyLookup, VerifyWrong, VerifyRight, View
  <2> QED
    BY <2>1, <2>2, <1>b DEF PageType
<1>2. CASE Opened \/ Closed
  <2> PICK p \in Page : (\E token \in inbox : Open(p, token)) \/ Close(p)
    BY <1>2 DEF Opened, Closed
  <2>1. \E shown \in PageType : page' = [page EXCEPT ![p] = shown]
    BY <1>0, ReceiptLinksAssumption DEF Open, Close, Live, PageType, View
  <2>2. UNCHANGED link
    BY DEF Open, Close
  <2> QED
    BY <2>1, <2>2, <1>b DEF PageType
<1>3. CASE Issued \/ Reissued
  <2>1. \E token \in 0 .. MaxLinks : link' = [token |-> token, expired |-> FALSE, fails |-> 0]
    BY <1>3, ReceiptLinksAssumption DEF Issued, Issue, Mints, Reissued, Reissue, CanReissue
  <2>2. UNCHANGED page
    BY <1>3 DEF Issued, Reissued
  <2> QED
    BY <2>1, <2>2
<1>4. CASE Expire
  BY <1>4 DEF Expire
<1>5. CASE UNCHANGED linkVars
  BY <1>5 DEF linkVars
<1> QED
  BY <1>1, <1>2, <1>3, <1>4, <1>5, LinkSteps

LEMMA GuessesStep ==
    ASSUME LinkInv, [Next]_vars
    PROVE  GuessesBounded'
<1> DEFINE before == Judged("wrong")
           after  == Judged("wrong")'
<1> USE DEF LinkInv, LinkTypeOK
<1>0. /\ before \in SUBSET Page /\ after \in SUBSET Page
      /\ link.fails \in Nat /\ link'.fails \in Nat
  BY LinkTypeStep DEF Judged
<1>a. /\ Cardinality(before) \in Nat /\ Cardinality(after) \in Nat /\ Cardinality(Page) \in Nat
      /\ Cardinality(after) <= Cardinality(Page)
  BY <1>0, FewPages
<1>b. GuessesBounded' <=> link'.fails + Cardinality(after) <= MaxFailedAttempts - 1 + Cardinality(Page)
  BY DEF GuessesBounded
<1>c. link.fails + Cardinality(before) <= MaxFailedAttempts - 1 + Cardinality(Page)
  BY DEF GuessesBounded
<1> HIDE DEF before, after
(* Nobody new is judged, and the count is as it was or back at zero.        *)
<1>1. CASE after \subseteq before /\ link'.fails = link.fails
  <2>1. Cardinality(after) <= Cardinality(before)
    BY <1>0, <1>1, FewPages
  <2> QED
    BY <2>1, <1>0, <1>1, <1>a, <1>b, <1>c, ReceiptLinksAssumption
<1>2. CASE link'.fails = 0
  BY <1>2, <1>a, <1>b, ReceiptLinksAssumption
(* Somebody is judged because the link was not burnt yet.                   *)
<1>3. CASE link'.fails = link.fails /\ link.fails < MaxFailedAttempts
  BY <1>3, <1>0, <1>a, <1>b, ReceiptLinksAssumption
<1>4. ASSUME NEW p \in Page, VerifyWrong(p)
      PROVE  GuessesBounded'
  <2>1. p \in before /\ after = before \ {p} /\ link'.fails = link.fails + 1
    BY <1>4 DEF VerifyWrong, before, after, Judged
  <2>2. Cardinality(after) = Cardinality(before) - 1
    BY <2>1, <1>0, OnePageLess
  <2> QED
    BY <2>1, <2>2, <1>0, <1>a, <1>b, <1>c, ReceiptLinksAssumption
<1>5. CASE Answered
  <2>1. ASSUME NEW p \in Page, NEW answer \in Answer, VerifyLookup(p, channel, answer)
        PROVE  GuessesBounded'
    <3>1. CASE Live(page[p].token)
      BY <2>1, <3>1, <1>0, <1>3, ReceiptLinksAssumption DEF VerifyLookup, Live, Unusable
    <3>2. CASE ~Live(page[p].token)
      BY <2>1, <3>2, <1>1 DEF VerifyLookup, before, after, Judged, NoPage
    <3> QED
      BY <3>1, <3>2
  <2>2. ASSUME NEW p \in Page, VerifyRight(p)
        PROVE  GuessesBounded'
    BY <2>2, <1>2 DEF VerifyRight
  <2> QED
    BY <2>1, <2>2, <1>4, <1>5 DEF Answered
<1>6. CASE Opened \/ Closed
  BY <1>6, <1>1 DEF Opened, Open, Closed, Close, before, after, Judged, NoPage
<1>7. CASE Issued \/ Reissued
  BY <1>7, <1>2 DEF Issued, Issue, Mints, Reissued, Reissue
<1>8. CASE Expire
  BY <1>8, <1>1 DEF Expire, before, after, Judged
<1>9. CASE UNCHANGED linkVars
  BY <1>9, <1>1 DEF linkVars, before, after, Judged
<1> QED
  BY <1>5, <1>6, <1>7, <1>8, <1>9, LinkSteps

LEMMA LinkInvInit ==
    ASSUME Init
    PROVE  LinkInv
<1>1. LinkTypeOK
  BY ReceiptLinksAssumption DEF Init, LinkInit, LinkTypeOK, NoPage, View
<1>2. Cardinality(Judged("wrong")) \in Nat /\ Cardinality(Judged("wrong")) <= Cardinality(Page)
      /\ Cardinality(Page) \in Nat
  BY FewPages DEF Judged
<1> QED
  BY <1>1, <1>2, ReceiptLinksAssumption DEF LinkInv, GuessesBounded, Init, LinkInit

(* Link and pages stay well formed, and the two conjuncts need each other:  *)
(* the bound on guesses is a bound on a count.                              *)
THEOREM LinkInvariant == Spec => []LinkInv
<1>1. LinkInv /\ [Next]_vars => LinkInv'
  BY LinkTypeStep, GuessesStep DEF LinkInv
<1> QED
  BY <1>1, LinkInvInit, PTL DEF Spec

-----------------------------------------------------------------------------
(* The theorems *)

(* However many pages answer a link's challenge at once and however often   *)
(* it is reissued, wrong answers exceed the cap by no more than the answers *)
(* that can be under way.                                                   *)
THEOREM GuessesAreBounded == Spec => []GuessesBounded
<1>1. LinkInv => GuessesBounded
  BY DEF LinkInv
<1> QED
  BY <1>1, LinkInvariant, PTL

LEMMA BurntStep ==
    ASSUME LinkInv, [Next]_vars,
           link.fails >= MaxFailedAttempts, Judged("right") = {}, link'.token = link.token
    PROVE  link'.fails >= MaxFailedAttempts /\ Judged("right")' = {}
<1> USE DEF LinkInv, LinkTypeOK, Judged
<1>0. \A token : ~Live(token)
  BY DEF Live, Unusable
<1>1. CASE Answered
  <2> PICK p \in Page : \/ \E answer \in Answer : VerifyLookup(p, channel, answer)
                        \/ VerifyWrong(p) \/ VerifyRight(p)
    BY <1>1 DEF Answered
  <2>1. CASE \E answer \in Answer : VerifyLookup(p, channel, answer)
    BY <2>1, <1>0 DEF VerifyLookup, NoPage
  <2>2. CASE VerifyWrong(p)
    BY <2>2, ReceiptLinksAssumption DEF VerifyWrong
  <2>3. ~VerifyRight(p)
    BY DEF VerifyRight
  <2> QED
    BY <2>1, <2>2, <2>3
<1>2. CASE Opened \/ Closed
  BY <1>2, <1>0 DEF Opened, Open, Closed, Close, NoPage
<1>3. ~Issued /\ ~Reissued
  BY ReceiptLinksAssumption DEF Issued, Issue, Mints, Reissued, Reissue, CanReissue
<1>4. CASE Expire \/ UNCHANGED linkVars
  BY <1>4 DEF Expire, linkVars
<1> QED
  BY <1>1, <1>2, <1>3, <1>4, LinkSteps

(* A burnt link is burnt until it is reissued: nothing but a right answer   *)
(* already being judged revives it.                                         *)
THEOREM BurntStaysBurnt == Spec => BurntUntilReissued
<1>1. LinkInv /\ [Next]_vars =>
        [link.fails >= MaxFailedAttempts /\ Judged("right") = {} /\ link'.token = link.token
           => link'.fails >= MaxFailedAttempts /\ Judged("right")' = {}]_linkVars
  BY BurntStep
<1> QED
  BY <1>1, LinkInvariant, PTL DEF Spec, BurntUntilReissued

-----------------------------------------------------------------------------
(* The messages' invariant *)

(* What is true of a worker at its place in the code: its attempt is of its *)
(* job, no later than the last delivery and not in the log before it is     *)
(* written; afterwards the log tells the outcome, unless that failed.  In   *)
(* local development a job has one worker.                                  *)
WorkerFits(w) ==
    LET x == worker[w] IN
    \/ x = Idle
    \/ /\ x.step # "idle" /\ x.job \in Job /\ x.id \in Attempt
       /\ JobOf(x.id) = x.job /\ x.id[2] <= job[x.job].tries
       /\ channel # None
       /\ x.step # "settle" => log[x.id] = None
       /\ x.outcome = "template_error" /\ ~env.dryRun => job[x.job].trigger # "order_received"
       /\ x.step = "settle" /\ x.job \notin unlogged =>
             /\ log[x.id] # None
             /\ x.outcome = "accepted" => log[x.id].status # "failed"
             /\ Permanent(x.outcome) => log[x.id].permanent
       /\ ~env.sqs => job[x.job].holder = w /\ job[x.job].state = "held"

OwnAttempts == \A u, w \in Worker : worker[u].id = worker[w].id => u = w \/ worker[w].id = None

(* A row is one of a delivery that has been made, and says what the reports *)
(* that it has heard come to.                                               *)
RowFits(n) ==
    /\ log[n] = None => heard[n] = {}
    /\ log[n] # None =>
          /\ n[2] <= job[JobOf(n)].tries
          /\ log[n].traceable => log[n].status # "failed"
          /\ IF heard[n] = {} THEN log[n].status \in {"sent", "failed"} ELSE log[n].status = Furthest(heard[n])

InHand(n) == \E w \in Worker : worker[w].id = n /\ worker[w].step # "settle"

JobFits(j) ==
    /\ job[j].state # "none" => channel # None
    /\ job[j].state = "acked" /\ j \notin unlogged =>
          \E n \in RowsOf(j) : log[n].status # "failed" \/ log[n].permanent
    /\ ~env.sqs /\ j \notin unlogged =>
          \A k \in 1 .. job[j].tries : log[<<j, k>>] # None \/ InHand(<<j, k>>)
    /\ job[j].state = "dropped" => ~env.sqs /\ job[j].tries = MaxTries /\ job[j].holder = None

SendersFit ==
    /\ channel # None => channel \in AvailableChannels
    /\ link.token # 0 => channel # None
    /\ ~env.dryRun => \A a \in accepted : a.via # "console"

MsgInv ==
    /\ MsgTypeOK /\ SendersFit /\ OwnAttempts
    /\ \A w \in Worker : WorkerFits(w)
    /\ \A n \in Attempt : RowFits(n)
    /\ \A j \in Job : JobFits(j)

-----------------------------------------------------------------------------
(* The steps that concern the messages *)

(* A request enqueues a job for a channel that has been, or is now, chosen. *)
Asked ==
    \E trigger \in Trigger, token \in Nat :
        /\ Enqueue(trigger, token)
        /\ \/ channel # None /\ UNCHANGED channel
           \/ \E c \in Channel : ChooseChannel(c)

LEMMA MessageSteps ==
    ASSUME LinkTypeOK, SendersFit, [Next]_vars
    PROVE  \/ Asked
           \/ \E w \in Worker : Send(w) \/ Log(w) \/ Settle(w) \/ Crash(w)
           \/ \E w \in Worker, j \in Job : Take(w, j)
           \/ \E j \in Job : DeadLetter(j) \/ Redeliver(j)
           \/ \E a \in Untied, s \in Reported : Callback(a, s)
           \/ UNCHANGED msgVars
<1>1. CASE Requests
  <2>1. CASE PlaceOrder
    <3>1. (\E c \in Channel : ChooseChannel(c)) /\ Enqueue("order_received", 0)
      BY <2>1 DEF PlaceOrder
    <3> QED
      BY <3>1 DEF Asked, Trigger
  <2>2. CASE FirstReady
    <3>1. Enqueue("order_ready", 0) /\ channel # None /\ UNCHANGED channel
      BY <2>2 DEF FirstReady
    <3> QED
      BY <3>1 DEF Asked, Trigger
  <2>3. CASE IssueAndSend
    <3>1. Enqueue("receipt", 1) /\ channel # None /\ UNCHANGED channel
      BY <2>3 DEF IssueAndSend
    <3> QED
      BY <3>1 DEF Asked, Trigger
  <2>4. CASE Resend
    <3>1. Enqueue("receipt", link.token + 1) /\ UNCHANGED channel
      BY <2>4 DEF Resend
    <3>2. link.token \in 1 .. MaxLinks - 1 /\ channel # None
      BY <2>4, ReceiptLinksAssumption DEF Resend, Reissue, CanReissue, SendersFit
    <3> QED
      BY <3>1, <3>2, ReceiptLinksAssumption DEF Asked, Trigger
  <2> QED
    BY <1>1, <2>1, <2>2, <2>3, <2>4 DEF Requests
<1>2. CASE MsgNext
  BY <1>2 DEF MsgNext, WorkerStep, QueueStep
<1>3. CASE UNCHANGED msgVars
  BY <1>3
<1> QED
  BY <1>1, <1>2, <1>3 DEF Next, OpenLink, vars

-----------------------------------------------------------------------------
(* Types *)

State == {"none", "unsent", "queued", "held", "acked", "dropped", "dead"}
JobRow == [state: State, trigger: Trigger, token: Nat, tries: 0 .. MaxTries, holder: Worker \union {None}]
Outcome == {"none", "accepted", "refused", "failed", "answer_lost", "template_error"}
WorkerRow == [job: Job \union {None}, step: {"idle", "send", "log", "settle"},
              outcome: Outcome, id: Attempt \union {None}]

LEMMA Providers ==
    ASSUME MsgTypeOK, channel # None
    PROVE  /\ ProviderFor(channel) \in Channel \union {"console"}
           /\ Outcomes(ProviderFor(channel)) \subseteq {"accepted", "refused", "failed", "answer_lost"}
<1>1. channel \in Channel
  BY DEF MsgTypeOK
<1>2. ProviderFor(channel) \in Channel \union {"console"}
  BY <1>1 DEF ProviderFor
<1> QED
  BY <1>2 DEF Channel, Outcomes, ConsoleOutcomes, SmsOutcomes, EmailOutcomes, WhatsAppOutcomes

LEMMA PossibleOutcomes ==
    ASSUME MsgTypeOK, channel # None, NEW j \in Job, NEW outcome \in SendOutcomes(j)
    PROVE  outcome \in {"accepted", "refused", "failed", "answer_lost", "template_error"}
  BY Providers DEF SendOutcomes

LEMMA IdleRow == Idle \in WorkerRow /\ Idle.step = "idle" /\ Idle.id = None /\ Idle.job = None
  BY DEF Idle, WorkerRow, Outcome

(* A worker that is at something has a job and an attempt of it.            *)
LEMMA AtWork ==
    ASSUME MsgInv, NEW w \in Worker, worker[w].step # "idle"
    PROVE  /\ worker[w].job \in Job /\ worker[w].id \in Attempt /\ worker[w].id # None
           /\ JobOf(worker[w].id) = worker[w].job /\ worker[w].id[2] <= job[worker[w].job].tries
           /\ channel # None
  BY IdleRow, NotificationsAssumption DEF MsgInv, WorkerFits

LEMMA Rows ==
    ASSUME MsgTypeOK
    PROVE  job \in [Job -> JobRow] /\ worker \in [Worker -> WorkerRow]
  BY DEF MsgTypeOK, JobRow, State, WorkerRow, Outcome

LEMMA MoveJob ==
    ASSUME MsgTypeOK, NEW j \in Job, NEW state \in State, NEW holder \in Worker \union {None},
           job' = [job EXCEPT ![j].state = state, ![j].holder = holder]
    PROVE  /\ job' \in [Job -> JobRow]
           /\ job'[j].state = state /\ job'[j].holder = holder
           /\ \A i \in Job : /\ job'[i].trigger = job[i].trigger /\ job'[i].tries = job[i].tries
                             /\ i # j => job'[i] = job[i]
  BY Rows DEF JobRow, State

LEMMA DeliverJob ==
    ASSUME MsgTypeOK, NEW w \in Worker, NEW j \in Job, Take(w, j)
    PROVE  /\ job' \in [Job -> JobRow]
           /\ job'[j].state = "held" /\ job'[j].holder = w /\ job'[j].tries = job[j].tries + 1
           /\ \A i \in Job : job'[i].trigger = job[i].trigger /\ (i # j => job'[i] = job[i])
<1> DEFINE a == [job EXCEPT ![j].state = "held"]
           b == [a EXCEPT ![j].tries = @ + 1]
<1> USE NotificationsAssumption
<1>0. job \in [Job -> JobRow] /\ job[j].tries < MaxTries
  BY Rows DEF Take, MayTake
<1>1. /\ a \in [Job -> JobRow] /\ a[j].state = "held" /\ a[j].tries = job[j].tries
      /\ \A i \in Job : a[i].trigger = job[i].trigger /\ (i # j => a[i] = job[i])
  BY <1>0 DEF JobRow, State
<1>2. job' = [b EXCEPT ![j].holder = w]
  BY DEF Take
<1> HIDE DEF a
<1>3. /\ b \in [Job -> JobRow] /\ b[j].state = "held" /\ b[j].tries = job[j].tries + 1
      /\ \A i \in Job : b[i].trigger = job[i].trigger /\ (i # j => b[i] = job[i])
  BY <1>0, <1>1 DEF JobRow
<1> HIDE DEF b
<1> QED
  BY <1>2, <1>3 DEF JobRow

-----------------------------------------------------------------------------
(* What a step leaves alone *)

(* A job's worker goes on with what it found as long as nobody takes the    *)
(* slot, an attempt's row is nobody else's, and in local development nobody *)
(* takes the job away.                                                      *)
LEMMA WorkerStays ==
    ASSUME NEW w \in Worker, WorkerFits(w), worker'[w] = worker[w], env' = env, channel # None => channel' = channel,
           worker[w].step # "idle" =>
              /\ job'[worker[w].job].trigger = job[worker[w].job].trigger
              /\ job'[worker[w].job].tries \in Nat /\ job[worker[w].job].tries \in Nat
              /\ job'[worker[w].job].tries >= job[worker[w].job].tries
              /\ log'[worker[w].id] = log[worker[w].id]
              /\ worker[w].job \in unlogged => worker[w].job \in unlogged'
              /\ ~env.sqs => /\ job'[worker[w].job].holder = job[worker[w].job].holder
                             /\ job'[worker[w].job].state = job[worker[w].job].state
    PROVE  WorkerFits(w)'
<1>1. CASE worker[w] = Idle
  BY <1>1 DEF WorkerFits
<1>2. CASE worker[w] # Idle
  <2>1. worker[w].id[2] \in Nat
    BY <1>2, NotificationsAssumption DEF WorkerFits, Attempt
  <2> QED
    BY <1>2, <2>1 DEF WorkerFits, Permanent
<1> QED
  BY <1>1, <1>2

LEMMA RowStays ==
    ASSUME MsgTypeOK, NEW n \in Attempt, RowFits(n), log'[n] = log[n], heard'[n] = heard[n],
           job'[JobOf(n)].tries \in Nat, job'[JobOf(n)].tries >= job[JobOf(n)].tries
    PROVE  RowFits(n)'
<1>1. n[2] \in Nat /\ JobOf(n) \in Job /\ job[JobOf(n)].tries \in Nat
  BY NotificationsAssumption, Rows DEF Attempt, JobOf, JobRow
<1> QED
  BY <1>1 DEF RowFits, Furthest, JobOf

(* A job of which nothing changes, neither row nor worker.                  *)
LEMMA JobStays ==
    ASSUME MsgTypeOK, NEW j \in Job, JobFits(j), env' = env, channel # None => channel' = channel,
           job'[j] = job[j], \A n \in Attempt : JobOf(n) = j => log'[n] = log[n],
           j \in unlogged => j \in unlogged',
           \A w \in Worker : worker[w].step # "idle" /\ worker[w].job = j => worker'[w] = worker[w],
           \A w \in Worker : WorkerFits(w)
    PROVE  JobFits(j)'
<1>1. job[j] \in JobRow
  BY Rows
<1>2. \A k \in 1 .. job[j].tries : <<j, k>> \in Attempt /\ JobOf(<<j, k>>) = j
  BY <1>1, NotificationsAssumption DEF JobRow, Attempt, JobOf
<1>3. RowsOf(j)' = RowsOf(j) /\ \A n \in RowsOf(j) : log'[n] = log[n]
  BY DEF RowsOf, JobOf
<1>4. ASSUME NEW k \in 1 .. job[j].tries, InHand(<<j, k>>)
      PROVE  InHand(<<j, k>>)'
  <2> PICK w \in Worker : worker[w].id = <<j, k>> /\ worker[w].step # "settle"
    BY <1>4 DEF InHand
  <2>1. worker[w].step # "idle" /\ worker[w].job = j
    <3>1. <<j, k>> \in Attempt /\ JobOf(<<j, k>>) = j /\ <<j, k>> # None
      BY <1>2, NotificationsAssumption
    <3>2. worker[w] # Idle /\ WorkerFits(w)
      BY <3>1, IdleRow
    <3> QED
      BY <3>1, <3>2, Zenon DEF WorkerFits
  <2> QED
    BY <2>1 DEF InHand
<1> QED
  BY <1>1, <1>2, <1>3, <1>4 DEF JobFits

-----------------------------------------------------------------------------
(* Every step keeps the invariant *)

Kept == /\ MsgTypeOK' /\ OwnAttempts'
        /\ \A w \in Worker : WorkerFits(w)'
        /\ \A n \in Attempt : RowFits(n)'
        /\ \A j \in Job : JobFits(j)'

(* A delivery is a new attempt: no row or worker is of that number yet.     *)
LEMMA TakeKeeps ==
    ASSUME MsgInv, NEW w \in Worker, NEW j \in Job, Take(w, j)
    PROVE  Kept
<1> USE NotificationsAssumption
<1>t. MsgTypeOK /\ job \in [Job -> JobRow] /\ worker \in [Worker -> WorkerRow] /\ worker[w] = Idle
  BY Rows DEF MsgInv, Take
<1>u. UNCHANGED <<env, channel, accepted, inbox, log, heard, unlogged, mishaps>>
  BY DEF Take
<1>0. <<j, job[j].tries + 1>> \in Attempt
  BY <1>t DEF Take, MayTake, JobRow, Attempt
<1> PICK id \in Attempt : id = <<j, job[j].tries + 1>>
  BY <1>0
<1>1. JobOf(id) = j /\ id[2] = job[j].tries + 1 /\ id # None /\ id[2] \in Nat
  BY <1>t DEF JobRow, JobOf
<1>2. /\ worker'[w] = [job |-> j, step |-> "send", outcome |-> "none", id |-> id]
      /\ \A v \in Worker \ {w} : worker'[v] = worker[v]
      /\ worker' \in [Worker -> WorkerRow]
  BY <1>t DEF Take, WorkerRow, Outcome
<1>3. /\ job' \in [Job -> JobRow]
      /\ job'[j].state = "held" /\ job'[j].holder = w /\ job'[j].tries = job[j].tries + 1
      /\ \A i \in Job : job'[i].trigger = job[i].trigger /\ (i # j => job'[i] = job[i])
  BY <1>t, DeliverJob
<1>4. \A i \in Job : job[i].tries \in Nat /\ job'[i].tries \in Nat /\ job'[i].tries >= job[i].tries
  BY <1>t, <1>3 DEF JobRow
<1>5. log[id] = None
  <2>1. log[id] # None => id[2] <= job[j].tries
    BY <1>1 DEF MsgInv, RowFits
  <2> QED
    BY <2>1, <1>1, <1>4
<1>6. \A v \in Worker : worker[v].id # id
  <2>1. ASSUME NEW v \in Worker, worker[v].id = id
        PROVE  id[2] <= job[j].tries
    BY <2>1, <1>1, IdleRow DEF MsgInv, WorkerFits
  <2> QED
    BY <2>1, <1>1, <1>4
<1>7. ~env.sqs => \A v \in Worker : worker[v].step # "idle" => worker[v].job # j
  <2>1. ASSUME ~env.sqs, NEW v \in Worker, worker[v].step # "idle", worker[v].job = j
        PROVE  FALSE
    <3>1. job[j].state = "held"
      BY <2>1, IdleRow DEF MsgInv, WorkerFits
    <3> QED
      BY <3>1 DEF Take, MayTake
  <2> QED
    BY <2>1
<1>8. MsgTypeOK'
  BY <1>t, <1>u, <1>2, <1>3 DEF MsgTypeOK, JobRow, State, WorkerRow, Outcome
<1>9. ASSUME NEW v \in Worker
      PROVE  WorkerFits(v)'
  <2>1. CASE v = w
    BY <2>1, <1>u, <1>1, <1>2, <1>3, <1>4, <1>5 DEF WorkerFits, JobFits, MsgInv, Take, MayTake, JobOf, Permanent
  <2>2. CASE v # w
    <3>1. worker[v].step # "idle" => worker[v].job \in Job
      BY AtWork
    <3> QED
      BY <2>2, <3>1, <1>u, <1>2, <1>3, <1>4, <1>7, WorkerStays DEF MsgInv
  <2> QED
    BY <2>1, <2>2
<1>10. OwnAttempts'
  BY <1>2, <1>6 DEF OwnAttempts, MsgInv
<1>11. ASSUME NEW n \in Attempt
       PROVE  RowFits(n)'
  BY <1>u, <1>t, <1>4, RowStays DEF MsgInv, Attempt, JobOf
<1>12. ASSUME NEW i \in Job
       PROVE  JobFits(i)'
  <2>1. CASE i # j
    BY <2>1, <1>t, <1>u, <1>2, <1>3, JobStays, IdleRow DEF MsgInv
  <2>2. CASE i = j
    <3>1. \A k \in 1 .. job'[j].tries : k \in 1 .. job[j].tries \/ <<j, k>> = id
      BY <1>3, <1>4
    <3>2. \A k \in 1 .. job[j].tries : InHand(<<j, k>>) => InHand(<<j, k>>)'
      <4>1. ASSUME NEW k \in 1 .. job[j].tries, NEW v \in Worker, worker[v].id = <<j, k>>, worker[v].step # "settle"
            PROVE  InHand(<<j, k>>)'
        <5>1. <<j, k>> \in Attempt
          BY <1>t DEF JobRow, Attempt
        <5>2. v # w
          BY <4>1, <5>1, <1>t, IdleRow
        <5> QED
          BY <4>1, <5>2, <1>2 DEF InHand
      <4> QED
        BY <4>1 DEF InHand
    <3>3. InHand(id)'
      BY <1>2 DEF InHand
    <3> QED
      BY <2>2, <3>1, <3>2, <3>3, <1>3, <1>u DEF JobFits, MsgInv, Take, MayTake
  <2> QED
    BY <2>1, <2>2
<1> QED
  BY <1>8, <1>9, <1>10, <1>11, <1>12 DEF Kept

(* A worker's own three steps.                                              *)
LEMMA SetOutcome ==
    ASSUME MsgTypeOK, NEW w \in Worker, NEW outcome \in Outcome,
           worker' = [worker EXCEPT ![w].step = "log", ![w].outcome = outcome]
    PROVE  /\ worker' \in [Worker -> WorkerRow]
           /\ worker'[w].step = "log" /\ worker'[w].outcome = outcome
           /\ worker'[w].job = worker[w].job /\ worker'[w].id = worker[w].id
           /\ \A v \in Worker \ {w} : worker'[v] = worker[v]
  BY Rows DEF WorkerRow, Outcome

LEMMA SetStep ==
    ASSUME MsgTypeOK, NEW w \in Worker, worker' = [worker EXCEPT ![w].step = "settle"]
    PROVE  /\ worker' \in [Worker -> WorkerRow]
           /\ worker'[w].step = "settle" /\ worker'[w].outcome = worker[w].outcome
           /\ worker'[w].job = worker[w].job /\ worker'[w].id = worker[w].id
           /\ \A v \in Worker \ {w} : worker'[v] = worker[v]
  BY Rows DEF WorkerRow, Outcome

LEMMA SetIdle ==
    ASSUME MsgTypeOK, NEW w \in Worker, worker' = [worker EXCEPT ![w] = Idle]
    PROVE  /\ worker' \in [Worker -> WorkerRow] /\ worker'[w] = Idle
           /\ \A v \in Worker \ {w} : worker'[v] = worker[v]
  BY Rows, IdleRow

(* What an offered channel cannot lack is the template of the first message.*)
LEMMA FirstTemplate ==
    ASSUME MsgInv, ~env.dryRun, channel # None, NEW j \in Job, "template_error" \in SendOutcomes(j)
    PROVE  job[j].trigger # "order_received"
<1> SUFFICES ASSUME job[j].trigger = "order_received"
             PROVE  FALSE
  OBVIOUS
<1>1. "template_error" \notin Outcomes(ProviderFor(channel))
  BY Providers DEF MsgInv
<1>2. channel = "whatsapp"
  BY <1>1 DEF SendOutcomes
<1>3. "order_received" \in env.templates
  BY <1>2 DEF MsgInv, SendersFit, AvailableChannels
<1>4. Templates(j) = {"link"}
  BY <1>3 DEF Templates, LinkTemplate, HasLink
<1> QED
  BY <1>1, <1>2, <1>4 DEF SendOutcomes

LEMMA SendKeeps ==
    ASSUME MsgInv, NEW w \in Worker, Send(w)
    PROVE  Kept /\ (~env.dryRun => \A a \in accepted' : a.via # "console")
<1> USE NotificationsAssumption
<1> DEFINE j == worker[w].job
<1>t. MsgTypeOK /\ job \in [Job -> JobRow] /\ worker \in [Worker -> WorkerRow]
  BY Rows DEF MsgInv
<1>u. UNCHANGED <<env, channel, job, log, heard, unlogged>>
  BY DEF Send
<1>w. worker[w].step = "send" /\ j \in Job /\ worker[w].id \in Attempt /\ channel # None /\ WorkerFits(w)
  BY AtWork DEF Send, MsgInv
<1> PICK outcome \in SendOutcomes(j) :
        /\ IF outcome = "answer_lost" THEN Mishap ELSE UNCHANGED mishaps
        /\ worker' = [worker EXCEPT ![w].step = "log", ![w].outcome = outcome]
        /\ accepted' = IF outcome \in {"accepted", "answer_lost"}
                         THEN accepted \union {[id |-> worker[w].id, via |-> ProviderFor(channel)]}
                         ELSE accepted
        /\ inbox' = IF outcome \in {"accepted", "answer_lost"} THEN inbox \union ({job[j].token} \ {0}) ELSE inbox
  BY DEF Send
<1>1. outcome \in Outcome
  BY <1>t, <1>w, PossibleOutcomes DEF Outcome
<1>2. /\ worker' \in [Worker -> WorkerRow]
      /\ worker'[w].step = "log" /\ worker'[w].outcome = outcome
      /\ worker'[w].job = j /\ worker'[w].id = worker[w].id
      /\ \A v \in Worker \ {w} : worker'[v] = worker[v]
  BY <1>1, <1>t, SetOutcome
<1>3. ProviderFor(channel) \in Channel \union {"console"} /\ job[j].token \in Nat
  BY <1>t, <1>w, Providers DEF JobRow
<1>4. MsgTypeOK'
  <2>1. accepted' \subseteq [id: Attempt, via: Channel \union {"console"}] /\ inbox' \subseteq Nat
    BY <1>t, <1>w, <1>3 DEF MsgTypeOK
  <2>2. mishaps' \in 0 .. MaxMishaps
    BY <1>t DEF MsgTypeOK, Mishap
  <2> QED
    BY <2>1, <2>2, <1>t, <1>u, <1>2 DEF MsgTypeOK, WorkerRow, Outcome
<1>5. ASSUME NEW v \in Worker
      PROVE  WorkerFits(v)'
  <2>1. CASE v = w
    <3>1. outcome = "template_error" /\ ~env.dryRun => job[j].trigger # "order_received"
      BY <1>w, FirstTemplate
    <3>2. worker[w] # Idle
      BY <1>w, IdleRow
    <3> QED
      BY <2>1, <3>1, <3>2, <1>u, <1>w, <1>2 DEF WorkerFits, JobOf
  <2>2. CASE v # w
    <3>1. worker[v].step # "idle" => worker[v].job \in Job
      BY AtWork
    <3> QED
      BY <2>2, <3>1, <1>t, <1>u, <1>2, WorkerStays DEF MsgInv, JobRow
  <2> QED
    BY <2>1, <2>2
<1>6. OwnAttempts'
  BY <1>2 DEF OwnAttempts, MsgInv
<1>7. ASSUME NEW n \in Attempt
      PROVE  RowFits(n)'
  BY <1>u, <1>t, RowStays DEF MsgInv, Attempt, JobOf, JobRow
<1>8. ASSUME NEW i \in Job
      PROVE  JobFits(i)'
  <2>1. \A n : InHand(n) => InHand(n)'
    BY <1>2, <1>w DEF InHand
  <2>2. RowsOf(i)' = RowsOf(i)
    BY <1>u DEF RowsOf, JobOf
  <2> QED
    BY <2>1, <2>2, <1>u DEF JobFits, MsgInv
<1>9. ~env.dryRun => \A a \in accepted' : a.via # "console"
  <2>1. ~env.dryRun => ProviderFor(channel) # "console"
    BY <1>w DEF MsgInv, SendersFit, AvailableChannels, ProviderFor, MsgTypeOK, Channel
  <2> QED
    BY <2>1 DEF MsgInv, SendersFit
<1> QED
  BY <1>4, <1>5, <1>6, <1>7, <1>8, <1>9 DEF Kept

(* The row of an attempt is new, and says what the worker saw.              *)
LEMMA LogKeeps ==
    ASSUME MsgInv, NEW w \in Worker, Log(w)
    PROVE  Kept
<1> USE NotificationsAssumption
<1> DEFINE j == worker[w].job
           id == worker[w].id
<1>t. MsgTypeOK /\ job \in [Job -> JobRow] /\ worker \in [Worker -> WorkerRow]
  BY Rows DEF MsgInv
<1>u. UNCHANGED <<env, channel, job, accepted, inbox, heard>>
  BY DEF Log
<1>w. worker[w].step = "log" /\ j \in Job /\ id \in Attempt /\ JobOf(id) = j /\ channel # None /\ WorkerFits(w)
  BY AtWork DEF Log, MsgInv
<1>2. /\ worker' \in [Worker -> WorkerRow]
      /\ worker'[w].step = "settle" /\ worker'[w].outcome = worker[w].outcome
      /\ worker'[w].job = j /\ worker'[w].id = id
      /\ \A v \in Worker \ {w} : worker'[v] = worker[v]
  BY <1>t, SetStep DEF Log
<1>3. worker[w] # Idle /\ log[id] = None /\ heard[id] = {} /\ id[2] <= job[j].tries
  BY <1>w, IdleRow DEF WorkerFits, MsgInv, RowFits
<1>4. \/ log' = [log EXCEPT ![id] = Row(w)] /\ UNCHANGED <<unlogged, mishaps>>
      \/ Mishap /\ unlogged' = unlogged \union {j} /\ UNCHANGED log
  BY DEF Log
<1>5. /\ Row(w) \in LogRow /\ Row(w) # None
      /\ Row(w).status \in {"sent", "failed"}
      /\ Row(w).traceable => Row(w).status # "failed"
      /\ worker[w].outcome = "accepted" => Row(w).status # "failed"
      /\ Row(w).permanent = Permanent(worker[w].outcome)
  <2>1. (worker[w].outcome = "accepted" /\ ProviderFor(channel) = "whatsapp") \in BOOLEAN /\ Permanent(worker[w].outcome) \in BOOLEAN
    BY DEF Permanent
  <2>2. /\ Row(w).status = IF worker[w].outcome = "accepted" THEN "sent" ELSE "failed"
        /\ Row(w).permanent = Permanent(worker[w].outcome)
        /\ Row(w).traceable => worker[w].outcome = "accepted"
    BY DEF Row
  <2>3. Row(w) \in LogRow
    BY <2>1 DEF Row, LogRow
  <2> QED
    BY <2>2, <2>3
<1> HIDE DEF j, id
<1>6. log \in [Attempt -> LogRow \union {None}] /\ unlogged \subseteq Job
  BY <1>t DEF MsgTypeOK
<1>7. /\ log' \in [Attempt -> LogRow \union {None}]
      /\ \A n \in Attempt \ {id} : log'[n] = log[n]
      /\ unlogged \subseteq unlogged' /\ unlogged' \subseteq Job
      /\ log'[id] = Row(w) \/ (j \in unlogged' /\ log'[id] = None)
  BY <1>3, <1>4, <1>5, <1>6, <1>w
<1>8. MsgTypeOK'
  <2>1. mishaps' \in 0 .. MaxMishaps
    BY <1>t, <1>4 DEF MsgTypeOK, Mishap
  <2> QED
    BY <2>1, <1>t, <1>u, <1>2, <1>7 DEF MsgTypeOK, WorkerRow, Outcome
<1>9. ASSUME NEW v \in Worker
      PROVE  WorkerFits(v)'
  <2>1. CASE v = w
    <3>1. (log'[id] # None /\ log'[id] = Row(w)) \/ j \in unlogged'
      BY <1>7, <1>5
    <3> QED
      BY <2>1, <3>1, <1>3, <1>5, <1>u, <1>w, <1>2 DEF WorkerFits, JobOf, Permanent, j, id
  <2>2. CASE v # w
    <3>1. worker[v].step # "idle" => worker[v].job \in Job /\ worker[v].id \in Attempt /\ worker[v].id # id
      BY <2>2, <1>w, AtWork DEF MsgInv, OwnAttempts, id
    <3> QED
      BY <2>2, <3>1, <1>t, <1>u, <1>2, <1>7, WorkerStays DEF MsgInv, JobRow
  <2> QED
    BY <2>1, <2>2
<1>10. OwnAttempts'
  BY <1>2 DEF OwnAttempts, MsgInv, id
<1>11. ASSUME NEW n \in Attempt
       PROVE  RowFits(n)'
  <2>1. CASE n # id
    BY <2>1, <1>u, <1>t, <1>7, RowStays DEF MsgInv, Attempt, JobOf, JobRow
  <2>2. CASE n = id
    BY <2>2, <1>3, <1>5, <1>7, <1>u, <1>w DEF RowFits, JobOf
  <2> QED
    BY <2>1, <2>2
<1>12. ASSUME NEW i \in Job
       PROVE  JobFits(i)'
  <2>1. \A n \in RowsOf(i) : n \in RowsOf(i)' /\ log'[n] = log[n]
    BY <1>3, <1>7 DEF RowsOf, JobOf
  <2>2. \A n \in Attempt : JobOf(n) \notin unlogged' /\ InHand(n) => log'[n] # None \/ InHand(n)'
    <3>1. ASSUME NEW n \in Attempt, JobOf(n) \notin unlogged', NEW v \in Worker, worker[v].id = n, worker[v].step # "settle"
          PROVE  log'[n] # None \/ InHand(n)'
      <4>1. CASE v = w
        BY <4>1, <3>1, <1>5, <1>7, <1>w DEF id
      <4>2. CASE v # w
        BY <4>2, <3>1, <1>2 DEF InHand
      <4> QED
        BY <4>1, <4>2
    <3> QED
      BY <3>1 DEF InHand
  <2>3. \A k \in 1 .. job[i].tries : <<i, k>> \in Attempt /\ JobOf(<<i, k>>) = i
    BY <1>t DEF JobRow, Attempt, JobOf
  <2>4. \A n \in Attempt : log[n] # None => log'[n] # None
    BY <1>3, <1>7
  <2> QED
    BY <2>1, <2>2, <2>3, <2>4, <1>7, <1>u DEF JobFits, MsgInv
<1> QED
  BY <1>8, <1>9, <1>10, <1>11, <1>12 DEF Kept

(* What the steps have in common that take a job out of hand.               *)
Moved ==
    /\ UNCHANGED <<env, channel, accepted, inbox, log, heard>>
    /\ unlogged \subseteq unlogged' /\ unlogged' \subseteq Job /\ mishaps' \in 0 .. MaxMishaps
    /\ worker' \in [Worker -> WorkerRow]
    /\ \A v \in Worker : worker'[v] = worker[v] \/ worker'[v] = Idle
    /\ job' \in [Job -> JobRow]
    /\ \A i \in Job : /\ job'[i].trigger = job[i].trigger /\ job'[i].tries = job[i].tries
                      /\ job'[i].state # "none" => channel # None

(* Whoever has a job in local development keeps it until it is done, and a  *)
(* job ends with a reason in the log.                                       *)
LEMMA MovedKeeps ==
    ASSUME MsgInv, Moved,
           ~env.sqs => \A v \in Worker : worker'[v] # Idle =>
                           /\ job'[worker[v].job].holder = job[worker[v].job].holder
                           /\ job'[worker[v].job].state = job[worker[v].job].state,
           ~env.sqs => \A n \in Attempt : JobOf(n) \notin unlogged' /\ InHand(n) => log[n] # None \/ InHand(n)',
           \A i \in Job : job'[i].state = "acked" /\ i \notin unlogged' =>
                              \/ job[i].state = "acked"
                              \/ \E n \in RowsOf(i) : log[n].status # "failed" \/ log[n].permanent,
           \A i \in Job : job'[i].state = "dropped" =>
                              ~env.sqs /\ job[i].tries = MaxTries /\ job'[i].holder = None
    PROVE  Kept
<1> USE NotificationsAssumption
<1>t. MsgTypeOK /\ job \in [Job -> JobRow] /\ worker \in [Worker -> WorkerRow]
  BY Rows DEF MsgInv
<1>1. MsgTypeOK'
  BY <1>t DEF Moved, MsgTypeOK, JobRow, State, WorkerRow, Outcome
<1>2. ASSUME NEW v \in Worker
      PROVE  WorkerFits(v)'
  <2>1. CASE worker'[v] = Idle
    BY <2>1 DEF WorkerFits
  <2>2. CASE worker'[v] # Idle
    <3>1. worker[v].step # "idle" => worker[v].job \in Job
      BY AtWork
    <3> QED
      BY <2>2, <3>1, <1>t, WorkerStays DEF MsgInv, JobRow, Moved
  <2> QED
    BY <2>1, <2>2
<1>3. OwnAttempts'
  BY IdleRow DEF OwnAttempts, MsgInv, Moved
<1>4. ASSUME NEW n \in Attempt
      PROVE  RowFits(n)'
  BY <1>t, RowStays DEF MsgInv, Attempt, JobOf, JobRow, Moved
<1>5. ASSUME NEW i \in Job
      PROVE  JobFits(i)'
  <2>1. RowsOf(i)' = RowsOf(i) /\ log' = log
    BY DEF RowsOf, JobOf, Moved
  <2>2. \A k \in 1 .. job[i].tries : <<i, k>> \in Attempt /\ JobOf(<<i, k>>) = i
    BY <1>t DEF JobRow, Attempt, JobOf
  <2> QED
    BY <2>1, <2>2 DEF JobFits, MsgInv, Moved
<1> QED
  BY <1>1, <1>2, <1>3, <1>4, <1>5 DEF Kept

LEMMA SettleKeeps ==
    ASSUME MsgInv, NEW w \in Worker, Settle(w)
    PROVE  Kept
<1> USE NotificationsAssumption
<1> DEFINE j == worker[w].job
           state == Settled(j, worker[w].outcome)
<1>t. MsgTypeOK /\ job \in [Job -> JobRow] /\ worker \in [Worker -> WorkerRow]
  BY Rows DEF MsgInv
<1>u. UNCHANGED <<env, channel, accepted, inbox, log, heard, unlogged, mishaps>>
  BY DEF Settle
<1>w. /\ worker[w].step = "settle" /\ j \in Job /\ worker[w].id \in Attempt /\ JobOf(worker[w].id) = j
      /\ WorkerFits(w) /\ worker[w] # Idle
  BY AtWork, IdleRow DEF Settle, MsgInv
<1>1. /\ worker' \in [Worker -> WorkerRow] /\ worker'[w] = Idle
      /\ \A v \in Worker \ {w} : worker'[v] = worker[v]
  BY <1>t, SetIdle DEF Settle
<1>2. \/ job[j].holder = w /\ job' = [job EXCEPT ![j].state = state, ![j].holder = None]
      \/ UNCHANGED job
      \/ state = "acked" /\ job[j].state # "none" /\ job' = [job EXCEPT ![j].state = "acked", ![j].holder = None]
  BY DEF Settle
<1>3. /\ state = "acked" <=> worker[w].outcome = "accepted" \/ Permanent(worker[w].outcome)
      /\ state = "dropped" => ~env.sqs /\ job[j].tries >= MaxTries
      /\ state \in {"acked", "dropped", "queued"}
  BY DEF Settled
<1> HIDE DEF state, j
<1>4. /\ job' \in [Job -> JobRow]
      /\ \A i \in Job : /\ job'[i].trigger = job[i].trigger /\ job'[i].tries = job[i].tries
                        /\ i # j => job'[i] = job[i]
      /\ job'[j] # job[j] => job'[j].state = state /\ job'[j].holder = None
  <2>1. state \in State /\ "acked" \in State
    BY <1>3 DEF State
  <2> QED
    BY <1>2, <1>t, <1>w, <2>1, MoveJob
<1>5. Moved
  <2>1. \A i \in Job : job'[i].state # "none" => channel # None
    BY <1>w, AtWork
  <2> QED
    BY <2>1, <1>t, <1>u, <1>1, <1>4 DEF Moved, MsgTypeOK
<1>6. ~env.sqs => \A v \in Worker : worker'[v] # Idle =>
                     job[worker[v].job] = job'[worker[v].job]
  <2>1. ASSUME ~env.sqs, NEW v \in Worker, v # w, worker[v] # Idle
        PROVE  worker[v].job # j /\ worker[v].job \in Job
    <3>1. job[worker[v].job].holder = v /\ job[j].holder = w /\ worker[v].job \in Job
      BY <2>1, <1>w DEF MsgInv, WorkerFits, j
    <3> QED
      BY <2>1, <3>1
  <2> QED
    BY <2>1, <1>1, <1>4
<1>7. \A n : InHand(n) => InHand(n)'
  BY <1>1, <1>w DEF InHand
<1>8. state = "acked" /\ j \notin unlogged => \E n \in RowsOf(j) : log[n].status # "failed" \/ log[n].permanent
  BY <1>3, <1>w DEF WorkerFits, RowsOf, j
<1>9. state = "dropped" => ~env.sqs /\ job[j].tries = MaxTries
  BY <1>3, <1>t, <1>w DEF JobRow
<1>10. \A i \in Job : job'[i].state = "acked" /\ i \notin unlogged' =>
                          \/ job[i].state = "acked"
                          \/ \E n \in RowsOf(i) : log[n].status # "failed" \/ log[n].permanent
  BY <1>4, <1>8, <1>u
<1>11. \A i \in Job : job'[i].state = "dropped" =>
                          ~env.sqs /\ job[i].tries = MaxTries /\ job'[i].holder = None
  BY <1>4, <1>9 DEF MsgInv, JobFits
<1> QED
  BY <1>5, <1>6, <1>7, <1>10, <1>11, MovedKeeps

(* Only SQS survives an invocation that dies.                               *)
LEMMA CrashKeeps ==
    ASSUME MsgInv, NEW w \in Worker, Crash(w)
    PROVE  Kept
<1> USE NotificationsAssumption
<1> DEFINE j == worker[w].job
<1>t. MsgTypeOK /\ job \in [Job -> JobRow] /\ worker \in [Worker -> WorkerRow]
  BY Rows DEF MsgInv
<1>w. env.sqs /\ j \in Job /\ channel # None
  BY DEF Crash, MsgInv, WorkerFits
<1>1. /\ worker' \in [Worker -> WorkerRow] /\ worker'[w] = Idle
      /\ \A v \in Worker \ {w} : worker'[v] = worker[v]
  BY <1>t, SetIdle DEF Crash
<1>2. UNCHANGED job \/ job' = [job EXCEPT ![j].state = "queued", ![j].holder = None]
  BY DEF Crash
<1> HIDE DEF j
<1>3. /\ job' \in [Job -> JobRow]
      /\ \A i \in Job : /\ job'[i].trigger = job[i].trigger /\ job'[i].tries = job[i].tries
                        /\ i # j => job'[i] = job[i]
      /\ job'[j] # job[j] => job'[j].state = "queued"
  <2>1. "queued" \in State
    BY DEF State
  <2> QED
    BY <1>2, <1>t, <1>w, <2>1, MoveJob
<1>4. UNCHANGED <<env, channel, accepted, inbox, log, heard>>
  BY DEF Crash
<1>5. unlogged \subseteq unlogged' /\ unlogged' \subseteq Job /\ mishaps' \in 0 .. MaxMishaps
  BY <1>t, <1>w DEF Crash, MsgTypeOK, Mishap, j
<1>6. Moved
  BY <1>w, <1>1, <1>3, <1>4, <1>5 DEF Moved
<1>7. \A i \in Job : /\ job'[i].state = "acked" => job[i].state = "acked"
                    /\ job'[i].state # "dropped"
  <2>1. \A i \in Job : job[i].state # "dropped"
    BY <1>w DEF MsgInv, JobFits
  <2> QED
    BY <2>1, <1>3
<1> QED
  BY <1>6, <1>7, <1>w, MovedKeeps

LEMMA QueueKeeps ==
    ASSUME MsgInv, NEW j \in Job, DeadLetter(j) \/ Redeliver(j)
    PROVE  Kept
<1> USE NotificationsAssumption
<1>t. MsgTypeOK /\ job \in [Job -> JobRow] /\ worker \in [Worker -> WorkerRow]
  BY Rows DEF MsgInv
<1>1. \E state \in {"dead", "queued"} : job' = [job EXCEPT ![j].state = state, ![j].holder = None]
  BY DEF DeadLetter, Redeliver
<1>2. /\ job' \in [Job -> JobRow] /\ job'[j].state \in {"dead", "queued"}
      /\ \A i \in Job : /\ job'[i].trigger = job[i].trigger /\ job'[i].tries = job[i].tries
                        /\ i # j => job'[i] = job[i]
  <2>1. {"dead", "queued"} \subseteq State
    BY DEF State
  <2> QED
    BY <1>1, <1>t, <2>1, MoveJob
<1>3. UNCHANGED <<env, channel, worker, accepted, inbox, log, heard, unlogged>>
  BY DEF DeadLetter, Redeliver
<1>4. mishaps' \in 0 .. MaxMishaps
  BY <1>t DEF DeadLetter, Redeliver, MsgTypeOK, Mishap
<1>5. Moved
  <2>1. job[j].state # "none" /\ (\A i \in Job : job[i].state # "none" => channel # None)
    BY DEF DeadLetter, Redeliver, MsgInv, JobFits
  <2>2. \A i \in Job : job'[i].state # "none" => channel # None
    BY <1>2, <2>1
  <2> QED
    BY <2>2, <1>t, <1>2, <1>3, <1>4 DEF Moved, MsgTypeOK
<1>6. ~env.sqs => \A v \in Worker : worker'[v] # Idle => job'[worker[v].job] = job[worker[v].job]
  <2>1. ASSUME ~env.sqs, NEW v \in Worker, worker[v] # Idle
        PROVE  worker[v].job \in Job /\ worker[v].job # j
    <3>1. worker[v].job \in Job /\ job[worker[v].job].state = "held"
      BY <2>1 DEF MsgInv, WorkerFits
    <3>2. job[j].state = "queued"
      BY <2>1 DEF DeadLetter, Redeliver
    <3> QED
      BY <3>1, <3>2
  <2> QED
    BY <2>1, <1>2, <1>3
<1>7. \A n : InHand(n) => InHand(n)'
  BY <1>3 DEF InHand
<1>8. \A i \in Job : job'[i].state = "acked" => job[i].state = "acked"
  BY <1>2
<1>9. \A i \in Job : job'[i].state = "dropped" =>
                         ~env.sqs /\ job[i].tries = MaxTries /\ job'[i].holder = None
  BY <1>2 DEF MsgInv, JobFits
<1> QED
  BY <1>5, <1>6, <1>7, <1>8, <1>9, MovedKeeps

(* However reports come in, they only ever raise a row's status.            *)
LEMMA CallbackKeeps ==
    ASSUME MsgInv, NEW a \in accepted, NEW m \in Reported, Callback(a, m)
    PROVE  Kept
<1> USE NotificationsAssumption
<1>t. MsgTypeOK /\ job \in [Job -> JobRow] /\ worker \in [Worker -> WorkerRow] /\ a.id \in Attempt
  BY Rows DEF MsgInv, MsgTypeOK
<1>u. UNCHANGED <<env, channel, job, worker, accepted, inbox, unlogged, mishaps>>
  BY DEF Callback
<1> PICK s \in Updates(m) : /\ log' = [log EXCEPT ![a.id] = AppliedStatus(log[a.id], s)]
                           /\ heard' = [heard EXCEPT ![a.id] = heard[a.id] \union {s}]
  BY DEF Callback
<1> PICK id \in Attempt : id = a.id
  BY <1>t
<1>1. s \in {"delivered", "read", "undelivered"}
  BY DEF Updates, Mapped, Reported
<1>2. log \in [Attempt -> LogRow \union {None}] /\ heard \in [Attempt -> SUBSET {"delivered", "read", "undelivered"}]
  BY <1>t DEF MsgTypeOK
<1>3. log[id] # None /\ log[id] \in LogRow /\ log[id].traceable /\ log[id].status # "failed"
  BY <1>2 DEF Callback, MsgInv, RowFits
<1>4. /\ log'[id] \in LogRow /\ log'[id] # None /\ log'[id].status # "failed" /\ log'[id].status = Furthest(heard'[id])
      /\ log'[id].permanent = log[id].permanent /\ heard'[id] # {}
  <2>1. /\ heard[id] = {} => log[id].status = "sent"
        /\ heard[id] # {} => log[id].status = Furthest(heard[id])
    BY <1>3 DEF MsgInv, RowFits
  <2>2. log'[id] = AppliedStatus(log[id], s) /\ heard'[id] = heard[id] \union {s}
    BY <1>2
  <2>3. heard[id] \in SUBSET {"delivered", "read", "undelivered"}
    BY <1>2
  <2> PICK row \in LogRow, reports \in SUBSET {"delivered", "read", "undelivered"} : row = log[id] /\ reports = heard[id]
    BY <2>3, <1>3
  <2>4. /\ AppliedStatus(row, s) \in LogRow /\ AppliedStatus(row, s).status # "failed"
        /\ AppliedStatus(row, s).status = Furthest(reports \union {s})
        /\ AppliedStatus(row, s).permanent = row.permanent
    <3>1. /\ reports # {} => row.status = Furthest(reports)
          /\ reports = {} => row.status = "sent"
      BY <2>1
    <3> QED
      BY <3>1, <1>1 DEF AppliedStatus, Rank, Furthest, LogRow
  <2> QED
    BY <2>2, <2>4, <1>3
<1>5. /\ \A n \in Attempt \ {id} : log'[n] = log[n] /\ heard'[n] = heard[n]
      /\ log' \in [Attempt -> LogRow \union {None}] /\ heard' \in [Attempt -> SUBSET {"delivered", "read", "undelivered"}]
  BY <1>1, <1>2, <1>4
<1>6. MsgTypeOK'
  BY <1>t, <1>u, <1>5 DEF MsgTypeOK
<1>7. ASSUME NEW v \in Worker
      PROVE  WorkerFits(v)'
  <2>1. worker[v] # Idle => worker[v].id \in Attempt
    BY DEF MsgInv, WorkerFits
  <2> QED
    BY <2>1, <1>u, <1>3, <1>4, <1>5 DEF WorkerFits, MsgInv, JobOf, Permanent
<1>8. OwnAttempts'
  BY <1>u DEF OwnAttempts, MsgInv
<1>9. ASSUME NEW n \in Attempt
      PROVE  RowFits(n)'
  BY <1>u, <1>3, <1>4, <1>5 DEF RowFits, MsgInv, JobOf
<1>10. ASSUME NEW i \in Job
       PROVE  JobFits(i)'
  <2>1. RowsOf(i)' = RowsOf(i)
    BY <1>3, <1>4, <1>5 DEF RowsOf, JobOf
  <2>2. \A n \in RowsOf(i) : /\ log[n].status # "failed" => log'[n].status # "failed"
                            /\ log'[n].permanent = log[n].permanent
    BY <1>4, <1>5 DEF RowsOf
  <2>3. \A n \in Attempt : log[n] # None => log'[n] # None
    BY <1>4, <1>5
  <2>4. \A k \in 1 .. job[i].tries : <<i, k>> \in Attempt
    BY <1>t DEF JobRow, Attempt
  <2>5. \A n : InHand(n) => InHand(n)'
    BY <1>u DEF InHand
  <2> QED
    BY <2>1, <2>2, <2>3, <2>4, <2>5, <1>u DEF JobFits, MsgInv
<1> QED
  BY <1>6, <1>7, <1>8, <1>9, <1>10 DEF Kept

LEMMA NewJob ==
    ASSUME NEW state \in {"queued", "unsent"}, NEW trigger \in Trigger, NEW token \in Nat
    PROVE  LET row == [state |-> state, trigger |-> trigger, token |-> token, tries |-> 0, holder |-> None]
           IN  row \in JobRow /\ row.state = state /\ row.tries = 0
  BY NotificationsAssumption DEF JobRow, State

(* A slot that is used again starts from nothing.                           *)
LEMMA AskedKeeps ==
    ASSUME MsgInv, Asked
    PROVE  Kept
<1> USE NotificationsAssumption
<1>t. MsgTypeOK /\ job \in [Job -> JobRow] /\ worker \in [Worker -> WorkerRow]
  BY Rows DEF MsgInv
<1> PICK trigger \in Trigger, token \in Nat :
        /\ Enqueue(trigger, token)
        /\ \/ channel # None /\ UNCHANGED channel
           \/ \E c \in Channel : ChooseChannel(c)
  BY DEF Asked
<1> PICK j \in Free :
        /\ \E state \in {"queued", "unsent"} :
              /\ job' = [job EXCEPT ![j] = [state |-> state, trigger |-> trigger, token |-> token,
                                           tries |-> 0, holder |-> None]]
              /\ IF state = "unsent" THEN Mishap ELSE UNCHANGED mishaps
        /\ accepted' = {a \in accepted : JobOf(a.id) # j}
        /\ log' = [n \in Attempt |-> IF JobOf(n) = j THEN None ELSE log[n]]
        /\ heard' = [n \in Attempt |-> IF JobOf(n) = j THEN {} ELSE heard[n]]
        /\ unlogged' = unlogged \ {j}
        /\ UNCHANGED <<env, worker, inbox>>
  BY DEF Enqueue
<1>1. channel' # None /\ channel' \in Channel /\ (channel # None => channel' = channel)
  BY <1>t DEF ChooseChannel, MsgTypeOK
<1>2. j \in Job /\ \A w \in Worker : worker[w].job # j
  BY DEF Free
<1>3. /\ job' \in [Job -> JobRow] /\ job'[j].state \in {"queued", "unsent"} /\ job'[j].tries = 0
      /\ \A i \in Job \ {j} : job'[i] = job[i]
  BY <1>t, <1>2, NewJob
<1>4. mishaps' \in 0 .. MaxMishaps
  BY <1>t DEF MsgTypeOK, Mishap
<1>5. \A n \in Attempt : IF JobOf(n) = j THEN log'[n] = None /\ heard'[n] = {}
                          ELSE log'[n] = log[n] /\ heard'[n] = heard[n]
  OBVIOUS
<1>6. MsgTypeOK'
  <2>1. /\ log' \in [Attempt -> LogRow \union {None}]
        /\ heard' \in [Attempt -> SUBSET {"delivered", "read", "undelivered"}]
    BY <1>t DEF MsgTypeOK
  <2>2. accepted' \subseteq [id: Attempt, via: Channel \union {"console"}] /\ unlogged' \subseteq Job
    BY <1>t DEF MsgTypeOK
  <2> QED
    BY <2>1, <2>2, <1>t, <1>1, <1>3, <1>4 DEF MsgTypeOK, JobRow, State
<1>7. ASSUME NEW v \in Worker
      PROVE  WorkerFits(v)'
  <2>1. worker[v].step # "idle" => /\ worker[v].job \in Job /\ worker[v].job # j
                                   /\ worker[v].id \in Attempt /\ JobOf(worker[v].id) = worker[v].job
    BY <1>2, AtWork
  <2> QED
    BY <2>1, <1>t, <1>1, <1>3, <1>5, WorkerStays DEF MsgInv, JobRow
<1>8. OwnAttempts'
  BY DEF OwnAttempts, MsgInv
<1>9. ASSUME NEW n \in Attempt
      PROVE  RowFits(n)'
  <2>1. CASE JobOf(n) = j
    BY <2>1, <1>5 DEF RowFits
  <2>2. CASE JobOf(n) # j
    <3>1. JobOf(n) \in Job /\ job'[JobOf(n)] = job[JobOf(n)] /\ job[JobOf(n)].tries \in Nat
      BY <2>2, <1>t, <1>3 DEF Attempt, JobOf, JobRow
    <3> QED
      BY <2>2, <3>1, <1>t, <1>5, RowStays DEF MsgInv
  <2> QED
    BY <2>1, <2>2
<1>10. ASSUME NEW i \in Job
       PROVE  JobFits(i)'
  <2>1. CASE i = j
    BY <2>1, <1>1, <1>3 DEF JobFits
  <2>2. CASE i # j
    BY <2>2, <1>t, <1>1, <1>2, <1>3, <1>5, JobStays DEF MsgInv
  <2> QED
    BY <2>1, <2>2
<1> QED
  BY <1>6, <1>7, <1>8, <1>9, <1>10 DEF Kept

(* The channel is one of those offered, and is there before a link is.      *)
LEMMA SendersStep ==
    ASSUME LinkTypeOK, MsgInv, [Next]_vars
    PROVE  SendersFit'
<1> USE NotificationsAssumption
<1>1. UNCHANGED env
  <2>1. ASSUME Asked
        PROVE  UNCHANGED env
    BY <2>1 DEF Asked, Enqueue
  <2> QED
    BY <2>1, MessageSteps DEF MsgInv, Send, Log, Settle, Crash, Take, DeadLetter, Redeliver, Callback, msgVars
<1>2. \/ UNCHANGED channel
      \/ channel = None /\ channel' \in AvailableChannels /\ channel' # None
  <2>1. ASSUME Asked
        PROVE  UNCHANGED channel \/ (channel = None /\ channel' \in AvailableChannels /\ channel' # None)
    BY <2>1 DEF Asked, ChooseChannel
  <2> QED
    BY <2>1, MessageSteps DEF MsgInv, Send, Log, Settle, Crash, Take, DeadLetter, Redeliver, Callback, msgVars
<1>3. (channel # None => channel \in AvailableChannels)'
  BY <1>1, <1>2 DEF MsgInv, SendersFit, AvailableChannels
<1>4. (link.token # 0 => channel # None)'
  <2>1. ASSUME Requests
        PROVE  link'.token # 0 => channel' # None
    BY <2>1, <1>2 DEF Requests, PlaceOrder, FirstReady, IssueAndSend, Resend, Reissue, CanReissue, MsgInv, SendersFit, linkVars
  <2>2. ASSUME ~Requests
        PROVE  link'.token = link.token
    BY <2>2 DEF Next, LinkTypeOK, linkVars, ViewNext, Expire, VerifyLookup, VerifyWrong, VerifyRight, Close, OpenLink, Open, vars
  <2> QED
    BY <2>1, <2>2, <1>2 DEF MsgInv, SendersFit
<1>5. ~env'.dryRun => \A a \in accepted' : a.via # "console"
  <2>1. ASSUME NEW w \in Worker, Send(w)
        PROVE  ~env'.dryRun => \A a \in accepted' : a.via # "console"
    BY <2>1, <1>1, SendKeeps
  <2>2. ASSUME Asked
        PROVE  accepted' \subseteq accepted
    BY <2>2 DEF Asked, Enqueue
  <2>3. (\E w \in Worker : Send(w)) \/ accepted' \subseteq accepted
    BY <2>2, MessageSteps DEF MsgInv, Log, Settle, Crash, Take, DeadLetter, Redeliver, Callback, msgVars
  <2> QED
    BY <2>1, <2>3, <1>1 DEF MsgInv, SendersFit
<1> QED
  BY <1>3, <1>4, <1>5 DEF SendersFit

LEMMA MsgInvStep ==
    ASSUME LinkTypeOK, MsgInv, [Next]_vars
    PROVE  MsgInv'
<1>1. ASSUME UNCHANGED msgVars
      PROVE  Kept
  <2>1. \A n : InHand(n)' = InHand(n)
    BY <1>1 DEF msgVars, InHand
  <2> QED
    BY <1>1, <2>1 DEF msgVars, Kept, MsgInv, MsgTypeOK, OwnAttempts, WorkerFits, RowFits, JobFits, RowsOf, Permanent, JobOf
<1>2. Kept
  BY <1>1, MessageSteps, AskedKeeps, SendKeeps, LogKeeps, SettleKeeps, CrashKeeps, TakeKeeps, QueueKeeps, CallbackKeeps
     DEF MsgInv, Untied
<1> QED
  BY <1>2, SendersStep DEF Kept, MsgInv

LEMMA MsgInvInit ==
    ASSUME Init
    PROVE  MsgInv
<1> USE NotificationsAssumption DEF Init, MsgInit
<1>1. NoJob \in JobRow /\ NoJob.state = "none" /\ NoJob.tries = 0
  BY DEF NoJob, JobRow, State, Trigger
<1>2. MsgTypeOK
  BY <1>1, IdleRow DEF MsgTypeOK, JobRow, State, WorkerRow, Outcome
<1>3. SendersFit
  BY DEF SendersFit, LinkInit
<1>4. OwnAttempts /\ \A w \in Worker : WorkerFits(w)
  BY IdleRow DEF OwnAttempts, WorkerFits
<1>5. \A n \in Attempt : RowFits(n)
  BY DEF RowFits
<1>6. \A j \in Job : JobFits(j)
  BY <1>1 DEF JobFits
<1> QED
  BY <1>2, <1>3, <1>4, <1>5, <1>6 DEF MsgInv

(* The messages' part and the link's hold together: a link is issued to an  *)
(* order that has a channel.                                                *)
THEOREM MessagesInvariant == Spec => [](LinkInv /\ MsgInv)
<1>1. Init => LinkInv /\ MsgInv
  BY LinkInvInit, MsgInvInit
<1>2. LinkInv /\ MsgInv /\ [Next]_vars => (LinkInv /\ MsgInv)'
  BY LinkTypeStep, GuessesStep, MsgInvStep DEF LinkInv
<1> QED
  BY <1>1, <1>2, PTL DEF Spec

(* Rows, workers and jobs stay well formed; links and pages, too.           *)
THEOREM MessagesTypes == Spec => []TypeOK
<1>1. LinkInv /\ MsgInv => TypeOK
  BY DEF LinkInv, MsgInv, TypeOK
<1> QED
  BY <1>1, MessagesInvariant, PTL

(* Whatever Meta reports of however many messages, in any order and any     *)
(* number of times, a row tells the furthest stage reported.                *)
THEOREM StatusTellsTheFurthest == Spec => []StatusIsFurthest
<1>1. MsgInv => StatusIsFurthest
  BY DEF MsgInv, StatusIsFurthest, RowFits
<1> QED
  BY <1>1, MessagesInvariant, PTL

LEMMA EveryTryLogged ==
    ASSUME MsgInv, NEW j \in Job, j \notin unlogged, job[j].state = "dropped"
    PROVE  Cardinality(RowsOf(j)) = MaxTries
<1> USE NotificationsAssumption
<1> DEFINE Tries == {<<j, k>> : k \in 1 .. MaxTries}
           nth == [k \in 1 .. MaxTries |-> <<j, k>>]
<1>1. ~env.sqs /\ job[j].tries = MaxTries /\ job[j].holder = None
  BY DEF MsgInv, JobFits
<1>2. ASSUME NEW n \in Attempt, JobOf(n) = j
      PROVE  ~InHand(n)
  <2>1. ASSUME NEW w \in Worker, worker[w].id = n, worker[w] # Idle
        PROVE  FALSE
    <3>1. job[j].holder = w
      BY <2>1, <1>1, <1>2 DEF MsgInv, WorkerFits
    <3> QED
      BY <3>1, <1>1
  <2>2. CASE InHand(n)
    <3> PICK w \in Worker : worker[w].id = n
      BY <2>2 DEF InHand
    <3> QED
      BY <2>1, IdleRow, <1>2
  <2> QED
    BY <2>2
<1>3. RowsOf(j) = Tries
  <2>1. \A k \in 1 .. MaxTries : <<j, k>> \in Attempt /\ JobOf(<<j, k>>) = j /\ log[<<j, k>>] # None
    BY <1>1, <1>2 DEF MsgInv, JobFits, Attempt, JobOf
  <2> QED
    BY <2>1 DEF RowsOf, Attempt, JobOf
<1>4. nth \in Bijection(1 .. MaxTries, Tries)
  BY DEF Bijection, Injection, Surjection, IsInjective
<1>5. IsFiniteSet(1 .. MaxTries) /\ Cardinality(1 .. MaxTries) = MaxTries
  <2>1. 1 \in Int /\ MaxTries \in Int /\ ~(1 > MaxTries) /\ MaxTries - 1 + 1 = MaxTries
    OBVIOUS
  <2> QED
    BY <2>1, FS_Interval
<1>6. Cardinality(Tries) = MaxTries
  <2>1. ExistsBijection(1 .. MaxTries, Tries)
    BY <1>4 DEF ExistsBijection
  <2> QED
    BY <2>1, <1>5, FS_Bijection
<1> QED
  BY <1>3, <1>6

(* Through crashes, second deliveries and lost answers, of any number of    *)
(* workers: a job that has ended was accepted, or the log says why not.     *)
THEOREM NoMessageVanishes == Spec => []NothingVanishes
<1>1. MsgInv => NothingVanishes
  BY EveryTryLogged DEF MsgInv, NothingVanishes, JobFits
<1> QED
  BY <1>1, MessagesInvariant, PTL

(* For every configuration of the deployment: a channel that was offered    *)
(* does send, and the first message has its template.                       *)
THEOREM WhatIsOfferedSends == Spec => []OfferedChannelsSend
<1>1. MsgInv => OfferedChannelsSend
  BY DEF MsgInv, OfferedChannelsSend, SendersFit, WorkerFits, Idle
<1> QED
  BY <1>1, MessagesInvariant, PTL

=============================================================================
