---------------------------- MODULE Notifications ----------------------------
(***************************************************************************)
(* The messages to one order's contact: jobs on a queue (SQS in            *)
(* production, setImmediate in local development), the worker that renders *)
(* and sends them and logs every attempt, and Meta's delivery callbacks.   *)
(*   src/src/modules/notifications/, src/src/lambda-notification-worker.ts,*)
(*   src/src/routes/webhookRoutes.ts, src/infra/lib/queue-stack.ts and     *)
(*   notification-worker-stack.ts.                                         *)
(***************************************************************************)
EXTENDS Integers, FiniteSetsExt

CONSTANTS
    Job, Worker, None,
    Envs,         \* the deployments' configurations, a set of Env
    MaxTries,     \* MAX_ATTEMPTS, or maxReceiveCount of the queue
    MaxReports,   \* bound: different statuses reported, over all messages
    MaxMishaps    \* bound: crashes, redeliveries, failed inserts and lost answers

Trigger == {"order_received", "order_ready", "receipt"}
Channel == {"whatsapp", "sms", "email"}

(* What process.env says of the providers; documentTemplate is the template *)
(* that carries the receipt as an attachment.                               *)
Env == [dryRun: BOOLEAN, credentials: SUBSET Channel, templates: SUBSET Trigger,
        documentTemplate: BOOLEAN, sqs: BOOLEAN, webhookSecret: BOOLEAN]

VARIABLES
    env,        \* the configuration, the same in the API and in the worker
    channel,    \* contact_channel of the order
    job,        \* job -> where it is, its trigger and the link it carries
    worker,     \* worker -> the delivery it is handling
    accepted,   \* attempts a provider took: their message ids
    inbox,      \* receipt links the contact has been sent
    log,        \* notification_log: attempt -> row or None
    heard,      \* history: attempt -> statuses reported since its row was there
    unlogged,   \* history: jobs of which an attempt could not be logged
    mishaps

msgVars == <<env, channel, job, worker, accepted, inbox, log, heard, unlogged, mishaps>>

(* An attempt is known by its job and by which delivery of the job it is    *)
(* made on (ApproximateReceiveCount, or `attempt` of processWithRetry).     *)
Attempt == Job \X (1 .. MaxTries)
JobOf(n) == n[1]

(* A row of notification_log; whether it was the last word, and whether a   *)
(* callback can refer to it.                                                *)
LogRow == [status: {"sent", "failed", "delivered", "read", "undelivered"},
           permanent: BOOLEAN, traceable: BOOLEAN]

ASSUME NotificationsAssumption ==
    /\ Envs \subseteq Env
    /\ None \notin Job \union Worker \union Channel \union Attempt \union LogRow
    /\ MaxTries \in Nat \ {0} /\ {MaxReports, MaxMishaps} \subseteq Nat

NoJob == [state |-> "none", trigger |-> "order_received", token |-> 0, tries |-> 0, holder |-> None]
RowsOf(j) == {n \in Attempt : JobOf(n) = j /\ log[n] # None}
Idle == [job |-> None, step |-> "idle", outcome |-> "none", id |-> None]

MsgInit ==
    /\ env \in Envs
    /\ channel = None
    /\ job = [j \in Job |-> NoJob]
    /\ worker = [w \in Worker |-> Idle]
    /\ accepted = {}
    /\ inbox = {}
    /\ log = [n \in Attempt |-> None]
    /\ heard = [n \in Attempt |-> {}]
    /\ unlogged = {}
    /\ mishaps = 0

Mishap == mishaps < MaxMishaps /\ mishaps' = mishaps + 1

-----------------------------------------------------------------------------
(* Channels and providers *)

(* availableChannels.  A WhatsApp number is worth nothing without the       *)
(* template of the first message.                                           *)
(* Mutant: what the form offers is not derived from the configuration.      *)
EveryChannel == Channel
AvailableChannels ==
    IF env.dryRun THEN Channel
    ELSE {c \in env.credentials : c = "whatsapp" => "order_received" \in env.templates}

(* getProviderForChannel *)
ProviderFor(c) == IF env.dryRun \/ c \notin env.credentials THEN "console" ELSE c

(* What becomes of a message that is handed to a provider; the answer of a  *)
(* send may be lost.  A dry run only logs, and reports success.             *)
ConsoleOutcomes == {"accepted"}

(* Success is the recipient's status; any error is caught and may pass.     *)
SmsOutcomes == {"accepted", "failed", "answer_lost"}
EmailOutcomes == {"accepted", "failed", "answer_lost"}

(* Only Meta's refusals (4xx) are known to be permanent.                    *)
WhatsAppOutcomes == {"accepted", "refused", "failed", "answer_lost"}

Outcomes(provider) ==
    CASE provider = "console"  -> ConsoleOutcomes
      [] provider = "sms"      -> SmsOutcomes
      [] provider = "email"    -> EmailOutcomes
      [] provider = "whatsapp" -> WhatsAppOutcomes

(* renderWhatsAppTemplate and renderWhatsAppReceiptWithDocument: without a  *)
(* name or a link there is no message, and no retry will cure that.         *)
HasLink(j) == job[j].trigger = "receipt" => job[j].token # 0
LinkTemplate(j) == IF job[j].trigger \in env.templates /\ HasLink(j) THEN "link" ELSE "error"
DocumentTemplate(j) == IF env.documentTemplate /\ HasLink(j) THEN "document" ELSE "error"

(* Rendering and uploading the attachment, which succeeds or not.  A dry    *)
(* run with credentials does upload.                                        *)
Uploads == IF "whatsapp" \in env.credentials THEN BOOLEAN ELSE {FALSE}

(* whatsAppTemplateFor: the attachment is attempted, and whatever goes      *)
(* wrong with it leaves the template that only links to the receipt.        *)
Templates(j) ==
    IF job[j].trigger = "receipt" /\ env.documentTemplate
      THEN {IF uploaded /\ DocumentTemplate(j) # "error" THEN "document" ELSE LinkTemplate(j) : uploaded \in Uploads}
      ELSE {LinkTemplate(j)}

(* One attempt of sendNotification. *)
SendOutcomes(j) ==
    LET provider == ProviderFor(channel) IN
    IF channel = "whatsapp"
      THEN UNION {IF t = "error" THEN {"template_error"} ELSE Outcomes(provider) : t \in Templates(j)}
      ELSE Outcomes(provider)

Permanent(outcome) == outcome \in {"refused", "template_error"}

-----------------------------------------------------------------------------
(* The queue *)

ChooseChannel(c) == channel = None /\ c \in AvailableChannels /\ channel' = c

(* A slot is used again once its job has ended and no worker is at it: that  *)
(* bounds the jobs that are under way together, which share nothing.        *)
Free == {j \in Job : /\ job[j].state \in {"none", "unsent", "acked", "dropped", "dead"}
                     /\ \A w \in Worker : worker[w].job # j}

(* enqueue, which may fail; the callers log that or report it to staff.     *)
Enqueue(trigger, token) ==
    \E j \in Free :
        /\ \E state \in {"queued", "unsent"} :
              /\ job' = [job EXCEPT ![j] = [state |-> state, trigger |-> trigger, token |-> token,
                                           tries |-> 0, holder |-> None]]
              /\ IF state = "unsent" THEN Mishap ELSE UNCHANGED mishaps
        /\ accepted' = {a \in accepted : JobOf(a.id) # j}
        /\ log' = [n \in Attempt |-> IF JobOf(n) = j THEN None ELSE log[n]]
        /\ heard' = [n \in Attempt |-> IF JobOf(n) = j THEN {} ELSE heard[n]]
        /\ unlogged' = unlogged \ {j}
        /\ UNCHANGED <<env, worker, inbox>>

(* A worker gets the job; SQS gives it out MaxTries times and then moves it *)
(* to the dead-letter queue.                                                *)
(* Mutant: it is given out for ever.                                        *)
AnyTime(j) == job[j].state = "queued"
MayTake(j) == job[j].state = "queued" /\ job[j].tries < MaxTries
Take(w, j) ==
    /\ worker[w] = Idle
    /\ MayTake(j)
    /\ worker' = [worker EXCEPT ![w] = [job |-> j, step |-> "send", outcome |-> "none", id |-> <<j, job[j].tries + 1>>]]
    /\ job' = [job EXCEPT ![j].state = "held", ![j].tries = @ + 1, ![j].holder = w]
    /\ UNCHANGED <<env, channel, accepted, inbox, log, heard, unlogged, mishaps>>

DeadLetter(j) ==
    /\ job[j].state = "queued" /\ job[j].tries = MaxTries
    /\ job' = [job EXCEPT ![j].state = "dead", ![j].holder = None]
    /\ UNCHANGED <<env, channel, worker, accepted, inbox, log, heard, unlogged, mishaps>>

Send(w) ==
    /\ worker[w].step = "send"
    /\ \E outcome \in SendOutcomes(worker[w].job) :
          /\ IF outcome = "answer_lost" THEN Mishap ELSE UNCHANGED mishaps
          /\ worker' = [worker EXCEPT ![w].step = "log", ![w].outcome = outcome]
          /\ accepted' = IF outcome \in {"accepted", "answer_lost"}
                           THEN accepted \union {[id |-> worker[w].id, via |-> ProviderFor(channel)]}
                           ELSE accepted
          /\ inbox' = IF outcome \in {"accepted", "answer_lost"}
                        THEN inbox \union ({job[worker[w].job].token} \ {0})
                        ELSE inbox
    /\ UNCHANGED <<env, channel, job, log, heard, unlogged>>

(* insertNotificationLog.  Only Meta's answer carries an id that a callback *)
(* can refer to.                                                            *)
Row(w) == [status |-> IF worker[w].outcome = "accepted" THEN "sent" ELSE "failed",
           permanent |-> Permanent(worker[w].outcome),
           traceable |-> worker[w].outcome = "accepted" /\ ProviderFor(channel) = "whatsapp"]

Log(w) ==
    /\ worker[w].step = "log"
    /\ worker' = [worker EXCEPT ![w].step = "settle"]
    /\ \/ log' = [log EXCEPT ![worker[w].id] = Row(w)] /\ UNCHANGED <<unlogged, mishaps>>
       \/ Mishap /\ unlogged' = unlogged \union {worker[w].job} /\ UNCHANGED log
    /\ UNCHANGED <<env, channel, job, accepted, inbox, heard>>

(* Handled jobs leave the queue; a failure that may pass goes back, or, in  *)
(* local development, is dropped after the last attempt.                    *)
(* Mutants: whatever was handled is acknowledged; a failed job is never     *)
(* offered again.                                                           *)
AckEverything(j, outcome) == "acked"
NeverOffered(j, outcome) == IF outcome = "accepted" \/ Permanent(outcome) THEN "acked" ELSE "held"
Settled(j, outcome) ==
    IF outcome = "accepted" \/ Permanent(outcome) THEN "acked"
    ELSE IF ~env.sqs /\ job[j].tries >= MaxTries THEN "dropped" ELSE "queued"

Settle(w) ==
    LET j == worker[w].job
        state == Settled(j, worker[w].outcome) IN
    /\ worker[w].step = "settle"
    /\ worker' = [worker EXCEPT ![w] = Idle]
    /\ IF job[j].holder = w
         THEN job' = [job EXCEPT ![j].state = state, ![j].holder = None]
         ELSE \* delivered again in the meantime: an outdated receipt handle
              \/ UNCHANGED job
              \/ /\ state = "acked" /\ job[j].state \in {"queued", "held"}
                 /\ job' = [job EXCEPT ![j].state = "acked", ![j].holder = None]
    /\ UNCHANGED <<env, channel, accepted, inbox, log, heard, unlogged, mishaps>>

(* The visibility timeout (30 s) passes while the invocation, which may     *)
(* take 60 s for a batch of ten, is still at it; or SQS delivers twice.     *)
Redeliver(j) ==
    /\ env.sqs /\ job[j].state = "held" /\ Mishap
    /\ job' = [job EXCEPT ![j].state = "queued", ![j].holder = None]
    /\ UNCHANGED <<env, channel, worker, accepted, inbox, log, heard, unlogged>>

(* The invocation dies before it has answered for its batch.                *)
Crash(w) ==
    /\ env.sqs /\ worker[w] # Idle /\ Mishap
    /\ worker' = [worker EXCEPT ![w] = Idle]
    /\ job' = IF job[worker[w].job].holder = w
                THEN [job EXCEPT ![worker[w].job].state = "queued", ![worker[w].job].holder = None] ELSE job
    /\ unlogged' = IF worker[w].step = "log" THEN unlogged \union {worker[w].job} ELSE unlogged
    /\ UNCHANGED <<env, channel, accepted, inbox, log, heard>>

-----------------------------------------------------------------------------
(* Delivery callbacks *)

(* statusRank, and the CASE of applyDeliveryStatus.                         *)
(* Mutant: a failure callback beats positive evidence.                      *)
FailureWins(s) == CASE s = "sent" -> 1 [] s = "delivered" -> 2 [] s = "read" -> 3
                    [] s = "undelivered" -> 4 [] OTHER -> 0
Rank(s) == CASE s = "sent" -> 1 [] s = "undelivered" -> 2 [] s = "delivered" -> 3
             [] s = "read" -> 4 [] OTHER -> 0

(* verifyWebhookSignature: Meta signs with the app's secret; without one    *)
(* every callback is turned away.                                           *)
Verified == env.webhookSecret

(* STATUS_MAP *)
Mapped(metaStatus) == IF metaStatus = "failed" THEN "undelivered" ELSE metaStatus

(* parseStatusUpdates: an entry that names no status we know is skipped.    *)
(* The updates of one payload are applied one after the other, each in a    *)
(* transaction of its own, like those of several.                           *)
Updates(metaStatus) ==
    {Mapped(m) : m \in {metaStatus} \intersect {"sent", "delivered", "read", "failed"}}

(* "sent" is reported too, but outranks nothing.                            *)
Reported == {"delivered", "read", "failed"}

(* One UPDATE decides and writes.                                           *)
AppliedStatus(row, s) == IF Rank(row.status) < Rank(s) THEN [row EXCEPT !.status = s] ELSE row

(* POST /webhooks/whatsapp.  Meta reports in any order and as often as it   *)
(* likes; a report that finds no row is answered 200 like the others and is *)
(* never repeated.                                                          *)
Callback(a, metaStatus) ==
    /\ Verified
    /\ a.via = "whatsapp"
    /\ log[a.id] # None /\ log[a.id].traceable
    /\ \E s \in Updates(metaStatus) :
          /\ s \in heard[a.id]
               \/ MapThenSumSet(LAMBDA n : Cardinality(heard[n]), Attempt) < MaxReports
          /\ log' = [log EXCEPT ![a.id] = AppliedStatus(@, s)]
          /\ heard' = [heard EXCEPT ![a.id] = @ \union {s}]
    /\ UNCHANGED <<env, channel, job, worker, accepted, inbox, unlogged, mishaps>>

(* Bound: reports are followed for messages without a receipt link; what a   *)
(* message carries makes no difference to them.                             *)
Untied == {a \in accepted : job[JobOf(a.id)].token = 0}

WorkerStep(w) == (\E j \in Job : Take(w, j)) \/ Send(w) \/ Log(w) \/ Settle(w)
QueueStep == \E j \in Job : DeadLetter(j)

MsgNext ==
    \/ \E w \in Worker : WorkerStep(w) \/ Crash(w)
    \/ QueueStep
    \/ \E j \in Job : Redeliver(j)
    \/ \E a \in Untied, s \in Reported : Callback(a, s)

-----------------------------------------------------------------------------
(* Properties *)

MsgTypeOK ==
    /\ env \in Env
    /\ channel \in Channel \union {None}
    /\ job \in [Job -> [state: {"none", "unsent", "queued", "held", "acked", "dropped", "dead"},
                        trigger: Trigger, token: Nat, tries: 0 .. MaxTries, holder: Worker \union {None}]]
    /\ worker \in [Worker -> [job: Job \union {None}, step: {"idle", "send", "log", "settle"},
                              outcome: {"none", "accepted", "refused", "failed", "answer_lost", "template_error"},
                              id: Attempt \union {None}]]
    /\ accepted \subseteq [id: Attempt, via: Channel \union {"console"}]
    /\ log \in [Attempt -> LogRow \union {None}]
    /\ heard \in [Attempt -> SUBSET {"delivered", "read", "undelivered"}]
    /\ unlogged \subseteq Job /\ inbox \subseteq Nat
    /\ mishaps \in 0 .. MaxMishaps

(* A row tells the furthest stage that was ever reported of its message,    *)
(* whatever the order, number and overlap of the callbacks: evidence that   *)
(* it arrived outlives a failure reported later.                            *)
Furthest(reports) ==
    CASE "read" \in reports -> "read"
      [] "delivered" \in reports /\ "read" \notin reports -> "delivered"
      [] OTHER -> "undelivered"
StatusIsFurthest ==
    \A n \in Attempt : log[n] # None =>
        IF heard[n] = {} THEN log[n].status \in {"sent", "failed"} ELSE log[n].status = Furthest(heard[n])

(* A job that has left the queue was accepted by a provider, or the log     *)
(* says why not: a permanent failure, or (in local development) as many     *)
(* failures as attempts.  The exception are attempts whose row could not be *)
(* written.                                                                 *)
NothingVanishes ==
    \A j \in Job : j \notin unlogged =>
        /\ job[j].state = "acked" =>
              \E n \in RowsOf(j) : log[n].status # "failed" \/ log[n].permanent
        /\ job[j].state = "dropped" => Cardinality(RowsOf(j)) = MaxTries

(* Outside of dry runs no order's message is handed to the provider that    *)
(* only logs, and the first message of an order never lacks its template.   *)
OfferedChannelsSend ==
    ~env.dryRun =>
        /\ \A a \in accepted : a.via # "console"
        /\ \A w \in Worker : worker[w].outcome = "template_error" => job[worker[w].job].trigger # "order_received"
=============================================================================
